---- MODULE Spec2Model ----
(***************************************************************************)
(* lerp2zero ("limit2zero"): a lookahead limiter.  Model of the limiting   *)
(* engine of src/lib.rs (LimiterBuffer, Limit2zero::initialize / reset /   *)
(* process) and of the easing curves of src/easing.rs.                     *)
(*                                                                         *)
(* Numbers.  Every f32 of the program is a fixed-point integer: the f32 v  *)
(* is the integer v * One, products and quotients are rounded to the       *)
(* nearest unit.  Decibels, curve progress, sample counts (elapsed, hold,  *)
(* release, lookahead) and amplitudes all use this representation.         *)
(***************************************************************************)
EXTENDS Integers, Sequences, FiniteSets, TLC

\* ------------------------------------------------------------------------
\* Fixed-point f32
\* ------------------------------------------------------------------------

\* the f32 value 1.0
One == 120

Abs(x) == IF x < 0 THEN -x ELSE x

\* n / d rounded to the nearest integer (d > 0), halves away from zero
RDiv(n, d) == IF n >= 0 THEN (2 * n + d) \div (2 * d)
                        ELSE -((2 * (-n) + d) \div (2 * d))

\* f32 multiplication and division
Mul(a, b) == RDiv(a * b, One)
Div(a, b) == IF b > 0 THEN RDiv(a * One, b) ELSE -RDiv(a * One, -b)

\* f32::ceil, f32::round (halves away from zero), f32::min
Ceil(x)  == -(((-x) \div One) * One)
Round(x) == RDiv(x, One) * One
Min(a, b) == IF a < b THEN a ELSE b
Max(a, b) == IF a > b THEN a ELSE b

\* `x as usize` / `x as u32` of a non-negative f32: truncation
AsUsize(x) == IF x <= 0 THEN 0 ELSE x \div One

\* f32::sqrt on [0, +inf): the nearest fixed-point root, lo being the
\* largest root not above it
SqrtNearest(x, lo) ==
    IF (x * One - lo * lo) <= ((lo + 1) * (lo + 1) - x * One) THEN lo ELSE lo + 1

Sqrt(x) ==
    SqrtNearest(x, CHOOSE r \in 0..(Max(x, One)) :
                        r * r <= x * One /\ (r + 1) * (r + 1) > x * One)

\* the value a computation yields where f32 arithmetic yields NaN
NaN == "NaN"

\* f32::powf for the exponents 1/4, 1/2, 1, 2 and 4
Powf(x, k) ==
    CASE k = One         -> x
      [] k = 2 * One     -> Mul(x, x)
      [] k = 4 * One     -> Mul(Mul(x, x), Mul(x, x))
      [] k = One \div 2  -> IF x < 0 THEN NaN ELSE Sqrt(x)
      [] k = One \div 4  -> IF x < 0 THEN NaN ELSE Sqrt(Sqrt(x))

\* f32::recip
Recip(k) == Div(One, k)

\* the blend run from b to a
lerp_Swapped(a, b, t) == b + Mul(a - b, t)

\* fn lerp(a, b, t) = a + (b - a) * t
lerp(a, b, t) == a + Mul(b - a, t)

\* ------------------------------------------------------------------------
\* nih_plug::util gain <-> dB conversions (20*log10 and its inverse),
\* piecewise linear between powers of two: a doubling is 6 dB.
\* ------------------------------------------------------------------------

Db(n) == n * One

\* util::MINUS_INFINITY_DB, the dB value of silence
MinusInfDb == Db(-100)

OctaveDb == Db(6)

RECURSIVE gain_to_db_fast(_)
gain_to_db_fast(g) ==
    IF g <= 0 THEN MinusInfDb
    ELSE IF g >= 2 * One THEN OctaveDb + gain_to_db_fast(g \div 2)
    ELSE IF g < One THEN Max(MinusInfDb, gain_to_db_fast(g * 2) - OctaveDb)
    ELSE RDiv(OctaveDb * (g - One), One)

RECURSIVE db_to_gain_fast(_)
db_to_gain_fast(x) ==
    IF x <= MinusInfDb THEN 0
    ELSE IF x >= OctaveDb THEN 2 * db_to_gain_fast(x - OctaveDb)
    ELSE IF x < 0 THEN RDiv(db_to_gain_fast(x + OctaveDb), 2)
    ELSE One + RDiv(x * One, OctaveDb)

\* ------------------------------------------------------------------------
\* src/easing.rs: the easing curves.  A curve is a record tagged by kind.
\* ------------------------------------------------------------------------

\* f32::EPSILON, the smallest positive step of the representation
Epsilon == 1

Clamp(x, lo, hi) == IF x < lo THEN lo ELSE IF x > hi THEN hi ELSE x

Linear == [kind |-> "Linear"]

EaseIn_new(polarity, power) ==
    [kind |-> "EaseIn", polarity |-> polarity, power |-> power]

EaseOut_new(polarity, power) ==
    [kind |-> "EaseOut", polarity |-> polarity, power |-> power]

SCurve_new(ease_in, ease_out, center, smoothing, sm_ease) ==
    [kind |-> "SCurve", ease_in |-> ease_in, ease_out |-> ease_out,
     center |-> center, smoothing |-> smoothing, sm_ease |-> sm_ease]

LinearBlend_new(curve, linearity) ==
    [kind |-> "LinearBlend", curve |-> curve, linearity |-> linearity]

\* a curve that squares its argument
Linear_process_Squared(x) == Mul(x, x)

\* impl Ease for Linear
Linear_process(x) == x

\* the value of an EaseIn / EaseOut of polarity p, given its two extremes:
\* at polarity 1, at polarity 0, else their blend by x
EasePolarity(p, at_one, at_zero, x) ==
    IF p = One THEN at_one
    ELSE IF p = 0 THEN at_zero
    ELSE lerp(at_zero, at_one, x)

\* an EaseOut that takes its polarity as it is given
EaseOut_process_Unclamped(e, x) ==
    EasePolarity(e.polarity,
                 One - Powf(One - x, e.power),
                 Powf(x, Recip(e.power)), x)

\* impl Ease for EaseOut
EaseOut_process(e, x) ==
    EasePolarity(Clamp(e.polarity, 0, One),
                 One - Powf(One - x, e.power),
                 Powf(x, Recip(e.power)), x)

\* an EaseIn whose polarity 1 extreme runs from 1 down to 0
EaseIn_process_Flipped(e, x) ==
    EasePolarity(Clamp(e.polarity, 0, One),
                 Powf(One - x, e.power),
                 One - Powf(One - x, Recip(e.power)), x)

\* impl Ease for EaseIn
EaseIn_process(e, x) ==
    EasePolarity(Clamp(e.polarity, 0, One),
                 Powf(x, e.power),
                 One - Powf(One - x, Recip(e.power)), x)

\* SCurve::process: the bounds of the crossfade region
smoothing_start(c) == c.center - Max(Mul(c.center, c.smoothing), Epsilon)

smoothing_end(c) == c.center + Max(Mul(One - c.center, c.smoothing), Epsilon)

\* SCurve::process: values[0], the "in" region [0, smoothing_end]
SCurve_in(c, in_prog, in_len) ==
    IF in_prog < One THEN Mul(EaseIn_process(c.ease_in, in_prog), in_len) ELSE 0

\* SCurve::process: values[1], the "out" region [smoothing_start, 1]
SCurve_out(c, out_prog, out_len, start) ==
    IF out_prog > 0
    THEN Mul(EaseOut_process(c.ease_out, out_prog), out_len) + start
    ELSE 0

RECURSIVE process(_, _)

\* SCurve::process: the crossfade of the two regions where both contribute
SCurve_mix(c, x, start, end, v0, v1) ==
    IF v0 # 0 /\ v1 # 0
    THEN lerp(v0, v1, process(c.sm_ease, Div(x - start, end - start)))
    ELSE v0 + v1

\* impl Ease for SCurve<T>
SCurve_process(c, x, start, end) ==
    SCurve_mix(c, x, start, end,
               SCurve_in(c, Div(x, end), end),
               SCurve_out(c, Div(x - start, One - start), One - start, start))

\* Ease::process of any curve; impl Ease for LinearBlend<T>
process(c, x) ==
    CASE c.kind = "Linear"  -> Linear_process(x)
      [] c.kind = "EaseIn"  -> EaseIn_process(c, x)
      [] c.kind = "EaseOut" -> EaseOut_process(c, x)
      [] c.kind = "LinearBlend" -> lerp(process(c.curve, x), x, c.linearity)
      [] c.kind = "SCurve" ->
            SCurve_process(c, x, smoothing_start(c), smoothing_end(c))

\* fn build_envelope(linearity, center, smooth_amount, pol_i, pol_o, pow_i,
\* pow_o, sm_pol_i, sm_pol_o, sm_pow_i, sm_pow_o), over a record of the
\* eleven shape parameters
build_envelope(sh) ==
    LET linear_smoothing_factor ==
            Mul(One - sh.smooth_amount, Powf(sh.linearity, 2 * One))
    IN  LinearBlend_new(
            SCurve_new(
                EaseIn_new(sh.pol_i, sh.pow_i),
                EaseOut_new(sh.pol_o, sh.pow_o),
                sh.center,
                sh.smooth_amount + linear_smoothing_factor,
                SCurve_new(
                    EaseIn_new(sh.sm_pol_i, sh.sm_pow_i),
                    EaseOut_new(sh.sm_pol_o, sh.sm_pow_o),
                    One \div 2,
                    Mul(One \div 4, Powf(sh.linearity, 2 * One)),
                    Linear)),
            sh.linearity)


\* ------------------------------------------------------------------------
\* src/lib.rs: SampleDB, EnvState, LimiterBuffer, CurrentPeaks
\* ------------------------------------------------------------------------

\* struct SampleDB { sample, db }.  The field seq is not in the program: it
\* is the number of the processed sample that pushed the entry (0 for the
\* silence a rebuild primes the buffer with).
SampleDB(sample, db, seq) == [sample |-> sample, db |-> db, seq |-> seq]

\* the entry LimiterBuffer::new primes the buffers with
Silence == SampleDB(0, MinusInfDb, 0)

\* SampleDB::peak
peak(s) == s.db > 0

\* enum EnvState { Hold(f32), Release(f32), Off }
Hold(elapsed)    == [tag |-> "Hold", elapsed |-> elapsed]
Release(elapsed) == [tag |-> "Release", elapsed |-> elapsed]
Off              == [tag |-> "Off", elapsed |-> 0]

\* const AUDIO_IO_LAYOUTS: main_input_channels = main_output_channels = 2
NumChannels == 2

\* the buffer length Limit2zero::default builds the limiters with
DefaultBufferLen == 256

\* the sample rate of Limit2zero::default
DefaultSampleRate == 44100 * One

\* LimiterBuffer::new(channels, sample_len)
LimiterBuffer_new(channels, sample_len) ==
    LET Ch == 0..(channels - 1)
    IN  [channels |-> channels,
         buffers  |-> [c \in Ch |-> [k \in 1..sample_len |-> Silence]],
         state    |-> [c \in Ch |-> Off],
         target   |-> [c \in Ch |-> 0],
         hold     |-> [c \in Ch |-> 0],
         envelope |-> [c \in Ch |-> 0],
         current_peaks |-> [db       |-> [c \in Ch |-> 0],
                            position |-> [c \in Ch |-> 2 * One],
                            lerp_len |-> [c \in Ch |-> One]]]

\* LimiterBuffer::get_mut: the index of the channel whose parts are handed out
\* every index handing out the limiter of channel 0
get_mut_First(l, channel) == 0

\* the index used as it is, without the clamp
get_mut_Unclamped(l, channel) == channel

get_mut(l, channel) == Clamp(channel, 0, l.channels - 1)

\* CurrentPeaks::get_mut: panics on an index past the last channel
CurrentPeaks_get_mut_panics(l, channel) == channel >= l.channels

\* fn calc_atk_reduction(db, t)
calc_atk_reduction(db, t) == lerp(0, -db, t)

\* CurrentPeakSingleMut::read: the new position and the candidate (None or a
\* reduction) of the remembered peak
read_at(cp, ease, position, progress) ==
    IF progress > One
    THEN [position |-> position - One, some |-> FALSE, value |-> 0]
    ELSE [position |-> position, some |-> TRUE,
          value |-> calc_atk_reduction(cp.db, process(ease, progress))]

\* a read whose progress leaves out the step the position has just taken
read_NoAdvance(cp, ease) ==
    read_at(cp, ease, cp.position + One,
            Div(cp.position + One, cp.lerp_len + One))

read(cp, ease) ==
    read_at(cp, ease, cp.position + One,
            Div(cp.position + One + One, cp.lerp_len + One))

\* ------------------------------------------------------------------------
\* Limit2zero::process: the values read from the parameters per block
\* ------------------------------------------------------------------------

\* a parameter in milliseconds as a number of samples: ms * 0.001 * sample_rate
ToSamples(ms, rate) == RDiv(ms * (rate \div One), 1000)

\* the lengths compared with 1 as they are, not rounded
TriggerState_Unrounded(hold, release) ==
    IF hold >= One THEN Hold(0)
    ELSE IF release >= One THEN Release(0)
    ELSE Off

\* the state a trigger (attack retrigger or safety clamp) enters
TriggerState(hold, release) ==
    IF Round(hold) >= One THEN Hold(0)
    ELSE IF Round(release) >= One THEN Release(0)
    ELSE Off

\* a hold value on the other side of 0
HoldValue_Negated(target, release_amt) == -Mul(target, Sqrt(release_amt))

\* the hold value of a trigger: target * release_amt.sqrt()
HoldValue(target, release_amt) == Mul(target, Sqrt(release_amt))


\* the latency without the ceil: (lookahead / 2.0) as u32
LatencySamples_Truncated(lookahead) ==
    AsUsize(Div(lookahead, 2 * One) - (Div(lookahead, 2 * One) % One))

\* the latency process reports on a lookahead change:
\* (lookahead / 2.0).ceil() as u32
LatencySamples(lookahead) == AsUsize(Ceil(Div(lookahead, 2 * One)))

\* ------------------------------------------------------------------------
\* Limit2zero::process: the steps of one sample of one channel.  A run r is
\* the limiters together with the locals of the per-sample loop
\* (rv_samples, most_reduction, atk_reduction, delay) and the frame of the
\* audio buffer at the current sample index (out).  The fields since, trig,
\* retrig, clamped, found and pushed are not in the program: per channel,
\* the number of state ticks since the last trigger (-1: none yet), the
\* envelope that trigger set, whether the retrigger / the clamp fired in
\* this sample, the state the tick of this sample found ("none": not ticked
\* yet, or not noted), the number of the sample the last rescan that found a
\* peak remembered (0: none) and the entries pushed since the limiters were
\* built (both if samples are numbered).
\* ------------------------------------------------------------------------

Channels == 0..(NumChannels - 1)

NoDelay == SampleDB(0, MinusInfDb, 0)

NoOut == [written |-> FALSE, sample |-> 0, db |-> MinusInfDb, seq |-> 0,
          envelope |-> 0, reduce |-> 0, gain_db |-> 0, value |-> 0]

NewRun(limiters) ==
    [limiters |-> limiters, rv_samples |-> << >>, most_reduction |-> 0,
     atk_reduction |-> 0, delay |-> NoDelay,
     out     |-> [c \in Channels |-> NoOut],
     since   |-> [c \in Channels |-> -1],
     trig    |-> [c \in Channels |-> 0],
     retrig  |-> [c \in Channels |-> FALSE],
     clamped |-> [c \in Channels |-> FALSE],
     found   |-> [c \in Channels |-> "none"],
     kept    |-> [c \in Channels |-> 0],
     pushed  |-> [c \in Channels |-> << >>]]

\* lines 855-860: the locals of one sample index
SampleLocals(r) ==
    [r EXCEPT !.rv_samples = << >>, !.most_reduction = 0,
              !.atk_reduction = 0, !.delay = NoDelay,
              !.out = [c \in Channels |-> NoOut],
              !.retrig = [c \in Channels |-> FALSE],
              !.clamped = [c \in Channels |-> FALSE],
              !.found = [c \in Channels |-> "none"]]

\* the driven sample: SampleDB { sample * input, gain_to_db_fast(|sample| * input) }
new_sample(sample, input, seq) ==
    SampleDB(Mul(sample, input), gain_to_db_fast(Mul(Abs(sample), input)), seq)

\* the new sample put at the front of the buffer: push_front
PushStep_Front(r, i, sample, input, seq) ==
    LET c == get_mut(r.limiters, i)
    IN  [r EXCEPT !.limiters.buffers[c] = << new_sample(sample, input, seq) >> \o @]

\* the new sample lost: nothing is pushed
PushStep_Dropped(r, i, sample, input, seq) == r

\* limiter.buffer.push_back(new_sample)
PushStep(r, i, sample, input, seq) ==
    LET c == get_mut(r.limiters, i)
    IN  [r EXCEPT !.limiters.buffers[c] = Append(@, new_sample(sample, input, seq))]

\* the hold taken to be over after hold ticks
HoldOver_Exact(elapsed, hold) == elapsed >= hold

\* the hold taken to be over one tick later
HoldOver_Late(elapsed, hold) == elapsed > hold + One

\* line 886: has the hold elapsed
HoldOver(elapsed, hold) == elapsed >= hold + One

\* the progress of the release over release ticks
ReleaseProgress_Exact(elapsed, release) == Div(elapsed, Max(release, 1))

\* lines 900, 905: the progress of the release, and has it elapsed
ReleaseProgress(elapsed, release) == Div(elapsed, release + One)

ReleaseOver(elapsed, release) == elapsed >= release + One

\* EnvState::Hold(elapsed) => ..
TickHold(l, c, hold, release) ==
    LET snap    == l.state[c].elapsed = 0
        elapsed == l.state[c].elapsed + One
    IN  [l EXCEPT !.target[c]   = IF snap THEN l.hold[c] ELSE @,
                  !.envelope[c] = IF snap THEN l.hold[c] ELSE @,
                  !.state[c]    = IF HoldOver(elapsed, hold)
                                  THEN (IF Round(release) >= One
                                        THEN Release(0) ELSE Off)
                                  ELSE Hold(elapsed)]

\* EnvState::Release(elapsed) => ..
TickRelease(l, c, release, rel_env) ==
    LET snap    == l.state[c].elapsed = 0
        target  == IF snap THEN l.hold[c] ELSE l.target[c]
        elapsed == l.state[c].elapsed + One
        t       == ReleaseProgress(elapsed, release)
    IN  [l EXCEPT !.target[c]   = target,
                  !.envelope[c] = lerp(target, 0, process(rel_env, t)),
                  !.state[c]    = IF ReleaseOver(elapsed, release)
                                  THEN Off ELSE Release(elapsed)]

\* an Off state that zeroes the target and the hold value only
TickOff_TargetOnly(l, c) ==
    [l EXCEPT !.target[c] = 0, !.hold[c] = 0]

\* an Off state that leaves the envelope as it is
TickOff_Keep(l, c) == l

\* EnvState::Off => ..
TickOff(l, c) ==
    IF l.envelope[c] # 0 \/ l.target[c] # 0 \/ l.hold[c] # 0
    THEN [l EXCEPT !.envelope[c] = 0, !.target[c] = 0, !.hold[c] = 0]
    ELSE l

\* match &mut limiter.state { Hold .. Release .. Off }
TickStep(r, i, hold, release, rel_env) ==
    LET c == get_mut(r.limiters, i)
        l == r.limiters
    IN  [r EXCEPT !.limiters =
            CASE l.state[c].tag = "Hold"    -> TickHold(l, c, hold, release)
              [] l.state[c].tag = "Release" -> TickRelease(l, c, release, rel_env)
              [] l.state[c].tag = "Off"     -> TickOff(l, c)]

\* the scan taking the later of two entries of equal reduction
RescanEntry_LastOfEqual(acc, sample, i, reduct) ==
    IF peak(sample) /\ reduct <= acc.curr_reduct /\ reduct < 0
    THEN [curr_reduct |-> reduct, db |-> sample.db, position |-> i * One]
    ELSE acc

\* lines 938-944: one over-threshold entry of the scan
RescanEntry(acc, sample, i, reduct) ==
    IF peak(sample) /\ reduct < acc.curr_reduct
    THEN [curr_reduct |-> reduct, db |-> sample.db, position |-> i * One]
    ELSE acc

\* a scan that places the entry of age i at i / (lookahead_len + 1)
RECURSIVE Rescan_FromZero(_, _, _, _, _)
Rescan_FromZero(buffer, i, acc, atk_env, lookahead_len) ==
    IF i >= Len(buffer) THEN acc
    ELSE Rescan_FromZero(buffer, i + 1,
                RescanEntry(acc, buffer[Len(buffer) - i], i,
                    calc_atk_reduction(buffer[Len(buffer) - i].db,
                        process(atk_env, Div(i * One, lookahead_len + One)))),
                atk_env, lookahead_len)

\* the rescan of lines 927-945: buffer.iter().rev().enumerate().filter(peak),
\* from index i (0 = the entry just pushed) on, acc = (curr_reduct, db, position)
RECURSIVE Rescan(_, _, _, _, _)
Rescan(buffer, i, acc, atk_env, lookahead_len) ==
    IF i >= Len(buffer) THEN acc
    ELSE Rescan(buffer, i + 1,
                RescanEntry(acc, buffer[Len(buffer) - i], i,
                    calc_atk_reduction(buffer[Len(buffer) - i].db,
                        process(atk_env, Div((i + 1) * One, lookahead_len + One)))),
                atk_env, lookahead_len)

\* a rescan on the last index of each stride instead of the first
IsRescan_Last(lookahead_len, sample_id, la_acc) ==
    lookahead_len >= One /\ sample_id % la_acc = la_acc - 1

\* line 926: is this sample index one that rescans the buffer
IsRescan(lookahead_len, sample_id, la_acc) ==
    lookahead_len >= One /\ sample_id % la_acc = 0

\* a retrigger that ignores a candidate of 0
Retriggers_OnlyNegative(atk_reduction, envelope) ==
    atk_reduction < envelope /\ atk_reduction < 0

\* a retrigger on a candidate equal to the envelope as well
Retriggers_OrEqual(atk_reduction, envelope) == atk_reduction <= envelope

\* line 956: does the attack candidate retrigger the envelope
Retriggers(atk_reduction, envelope) == atk_reduction < envelope

\* the remembered peak of channel c
CurrentPeak(l, c) ==
    [db |-> l.current_peaks.db[c], position |-> l.current_peaks.position[c],
     lerp_len |-> l.current_peaks.lerp_len[c]]

\* lines 946-951: the outcome sc of a rescan
FromRescan(cp, sc, lookahead_len, atk_amt) ==
    IF sc.db > 0
    THEN [cp |-> [db |-> sc.db, position |-> sc.position, lerp_len |-> lookahead_len],
          atk_reduction |-> Mul(sc.curr_reduct, atk_amt)]
    ELSE [cp |-> cp, atk_reduction |-> 0]

\* lines 952-954: the outcome rd of reading the remembered peak
FromRead(cp, rd, atk_amt) ==
    [cp |-> [cp EXCEPT !.position = rd.position],
     atk_reduction |-> IF rd.some THEN Mul(rd.value, atk_amt) ELSE 0]

\* lines 924-954: the remembered peak and the attack candidate of a sample
Candidate(cp, buffer, lookahead_len, sample_id, la_acc, atk_env, atk_amt) ==
    IF IsRescan(lookahead_len, sample_id, la_acc)
    THEN FromRescan(cp, Rescan(buffer, 0, [curr_reduct |-> 0, db |-> 0, position |-> 0],
                               atk_env, lookahead_len),
                    lookahead_len, atk_amt)
    ELSE FromRead(cp, read(cp, atk_env), atk_amt)

\* lines 947-949, 956-967: the candidate cand is stored and may retrigger
AttackApply(r, c, cand, hold, release, release_amt) ==
    [r EXCEPT
        !.atk_reduction = cand.atk_reduction,
        !.limiters.current_peaks.db[c] = cand.cp.db,
        !.limiters.current_peaks.position[c] = cand.cp.position,
        !.limiters.current_peaks.lerp_len[c] = cand.cp.lerp_len,
        !.limiters.target[c] =
            IF Retriggers(cand.atk_reduction, r.limiters.envelope[c])
            THEN cand.atk_reduction ELSE @,
        !.limiters.hold[c] =
            IF Retriggers(cand.atk_reduction, r.limiters.envelope[c])
            THEN HoldValue(cand.atk_reduction, release_amt) ELSE @,
        !.limiters.envelope[c] =
            IF Retriggers(cand.atk_reduction, r.limiters.envelope[c])
            THEN cand.atk_reduction ELSE @,
        !.limiters.state[c] =
            IF Retriggers(cand.atk_reduction, r.limiters.envelope[c])
            THEN TriggerState(hold, release) ELSE @]

\* lines 924-967: peak search (or remembered peak), then the retrigger
AttackStep(r, i, lookahead_len, sample_id, la_acc, atk_env, atk_amt, hold, release, release_amt) ==
    AttackApply(r, get_mut(r.limiters, i),
                Candidate(CurrentPeak(r.limiters, get_mut(r.limiters, i)),
                          r.limiters.buffers[get_mut(r.limiters, i)],
                          lookahead_len, sample_id, la_acc, atk_env, atk_amt),
                hold, release, release_amt)

\* limiter.buffer.pop_front() finds the buffer empty: unwrap panics
PopPanics(r, i) == Len(r.limiters.buffers[get_mut(r.limiters, i)]) = 0

\* the newest entry popped instead of the oldest
PopStep_Back(r, i) ==
    LET c == get_mut(r.limiters, i)
        B == r.limiters.buffers[c]
    IN  [r EXCEPT !.delay = B[Len(B)],
                  !.limiters.buffers[c] = SubSeq(B, 1, Len(B) - 1)]

\* the delayed sample read with front(), left in the buffer
PopStep_Front(r, i) ==
    LET c == get_mut(r.limiters, i)
    IN  [r EXCEPT !.delay = Head(r.limiters.buffers[c])]

\* let delay = limiter.buffer.pop_front().unwrap()
PopStep(r, i) ==
    LET c == get_mut(r.limiters, i)
    IN  [r EXCEPT !.delay = Head(r.limiters.buffers[c]),
                  !.limiters.buffers[c] = Tail(@)]

\* the clamp test on the amplitude of the delayed sample instead of its level
ClampFires_Amplitude(delay, envelope) == delay.sample + envelope > 0

\* a clamp that fires on a sample exactly at the ceiling as well
ClampFires_OrEqual(delay, envelope) == delay.db + envelope >= 0

\* line 974: is the delayed sample still over 0 dB with the envelope applied
ClampFires(delay, envelope) == delay.db + envelope > 0

\* most_reduction taken from the last channel alone
MostReduction_Last(most_reduction, envelope) == envelope

\* line 987: most_reduction = f32::min(most_reduction, envelope)
MostReduction(most_reduction, envelope) == Min(most_reduction, envelope)

\* lines 974-985: the safety clamp on the delayed sample
ClampApply(r, c, hold, release, release_amt) ==
    IF ClampFires(r.delay, r.limiters.envelope[c])
    THEN [r EXCEPT !.limiters.target[c]   = -r.delay.db,
                   !.limiters.hold[c]     = HoldValue(-r.delay.db, release_amt),
                   !.limiters.envelope[c] = -r.delay.db,
                   !.limiters.state[c]    = TriggerState(hold, release)]
    ELSE r

\* lines 987-989: most_reduction and rv_samples.add(delay.sample, envelope)
Collect(r, c) ==
    [r EXCEPT !.most_reduction = MostReduction(@, r.limiters.envelope[c]),
              !.rv_samples = Append(@, [sample |-> r.delay.sample,
                                        reduction |-> r.limiters.envelope[c],
                                        db |-> r.delay.db,
                                        seq |-> r.delay.seq])]

\* most_reduction and rv_samples taken from the envelope before the clamp
ClampStep_CollectFirst(r, i, hold, release, release_amt) ==
    ClampApply(Collect(r, get_mut(r.limiters, i)), get_mut(r.limiters, i),
               hold, release, release_amt)

\* lines 974-989: the safety clamp, most_reduction and rv_samples.add
ClampStep(r, i, hold, release, release_amt) ==
    Collect(ClampApply(r, get_mut(r.limiters, i), hold, release, release_amt),
            get_mut(r.limiters, i))

\* lines 992-996
Compensation(compensate, input) ==
    IF compensate THEN Div(gain_to_db_fast(input), -2 * One) ELSE 0

\* the link blending from the most reduction to the channel's own
StereoLink_Swapped(reduce, most_reduction, stereo_link) ==
    lerp(most_reduction, reduce, stereo_link)

\* line 1001: the reduction applied to a channel
StereoLink(reduce, most_reduction, stereo_link) ==
    lerp(reduce, most_reduction, stereo_link)

\* an output that leaves the trim out of the gain
Output_NoTrim(s, reduce, trim, compensation) ==
    [written |-> TRUE, sample |-> s.sample, db |-> s.db, seq |-> s.seq,
     envelope |-> s.reduction, reduce |-> reduce,
     gain_db |-> reduce + compensation,
     value |-> Mul(s.sample, db_to_gain_fast(reduce + compensation))]

\* lines 1000-1004: the output of one channel, s its rv_samples entry
Output(s, reduce, trim, compensation) ==
    [written |-> TRUE, sample |-> s.sample, db |-> s.db, seq |-> s.seq,
     envelope |-> s.reduction, reduce |-> reduce,
     gain_db |-> reduce + trim + compensation,
     value |-> Mul(s.sample, db_to_gain_fast(reduce + trim + compensation))]

\* lines 998-1005: the output frame
LinkStep(r, stereo_link, trim, compensation) ==
    [r EXCEPT !.out =
        [c \in DOMAIN r.out |->
            IF c + 1 > Len(r.rv_samples) THEN r.out[c]
            ELSE Output(r.rv_samples[c + 1],
                        StereoLink(r.rv_samples[c + 1].reduction,
                                   r.most_reduction, stereo_link),
                        trim, compensation)]]

\* ------------------------------------------------------------------------
\* src/simd.rs: the vectorized peak search.  A Simd<f32, L> is a sequence of
\* Lanes values, db_buffer a sequence of them.
\* ------------------------------------------------------------------------

\* the lane count L of the vectors
Lanes == 2

\* fn simd_lerp(a, b, t), of one lane
simd_lerp(a, b, t) == a + Mul(b - a, t)

\* the body of the loop of simd_max_reduction: one vector of the buffer
simd_step(max_vec, vec, base_index, len) ==
    IF \E l \in 1..Lanes : vec[l] > 0
    THEN [l \in 1..Lanes |->
             Max(max_vec[l],
                 simd_lerp(0, vec[l], Div((base_index + l - 1) * One, len)))]
    ELSE max_vec

\* the loop of simd_max_reduction from vector k on
RECURSIVE simd_loop(_, _, _, _, _)
simd_loop(db_buffer, k, max_vec, base_index, len) ==
    IF k > Len(db_buffer) THEN max_vec
    ELSE simd_loop(db_buffer, k + 1,
                   simd_step(max_vec, db_buffer[k], base_index, len),
                   base_index + Lanes, len)

\* Simd::reduce_max
RECURSIVE reduce_max(_, _)
reduce_max(vec, l) ==
    IF l = 1 THEN vec[1] ELSE Max(vec[l], reduce_max(vec, l - 1))

\* the lanes numbered from 0 instead of 1
simd_max_reduction_FromZero(db_buffer, len) ==
    -reduce_max(simd_loop(db_buffer, 1, [l \in 1..Lanes |-> 0], 0, len), Lanes)

\* pub fn simd_max_reduction(db_buffer, len)
simd_max_reduction(db_buffer, len) ==
    -reduce_max(simd_loop(db_buffer, 1, [l \in 1..Lanes |-> 0], 1, len), Lanes)

\* the dB values of a buffer as vectors for the vectorized search: newest
\* entry first, the last vector filled up with silence
DbVectors(B) ==
    [k \in 1..((Len(B) + Lanes - 1) \div Lanes) |->
        [l \in 1..Lanes |->
            IF (k - 1) * Lanes + l <= Len(B)
            THEN B[Len(B) + 1 - ((k - 1) * Lanes + l)].db
            ELSE MinusInfDb]]

\* ------------------------------------------------------------------------
\* Parameters (Limit2zeroParams) and the inputs of the model
\* ------------------------------------------------------------------------

\* the shape parameters of Limit2zeroParams::default (attack and release)
DefaultShape ==
    [linearity |-> One, center |-> One \div 2, smooth_amount |-> 0,
     pol_i |-> One, pol_o |-> One, pow_i |-> 2 * One, pow_o |-> 2 * One,
     sm_pol_i |-> One, sm_pol_o |-> One, sm_pow_i |-> 2 * One, sm_pow_o |-> 2 * One]

\* a shape with linearity 0: the S-curve alone
CurvedShape == [DefaultShape EXCEPT !.linearity = 0]

\* Limit2zeroParams::default; lookahead, hold and release in milliseconds
DefaultParams ==
    [drive |-> One, trim |-> 0, lookahead |-> 0, lookahead_accuracy |-> 1,
     attack_amt |-> One, atk_env |-> DefaultShape, hold |-> 0,
     release_amt |-> One, release |-> 0, rel_env |-> DefaultShape,
     stereo_link |-> 0, compensate |-> FALSE]

\* bounds of the model
MaxLookahead == 2
MaxBlock == 2
MaxSamples == 5

\* the sample rates the host initializes the plugin with: 1 ms is 1 sample,
\* or 1.5 samples
SampleRates == {1000 * One}

FractionalRates == {1000 * One, 1500 * One}

Half == One \div 2

\* the lookahead values (ms) the host sets: 0, 0.5, 1, 2, ... MaxLookahead
Lookaheads == {0, Half} \cup {k * One : k \in 1..MaxLookahead}

\* the input samples of a channel: silence, full scale, twice full scale
InputSamples == {0, One, -2 * One}

\* silence or twice full scale
LoudOrSilent == {0, -2 * One}

\* both channels fed from the same set of samples
Stereo(S) == [c \in Channels |-> S]

\* channel c fed from S, the other channels silent
Solo(c, S) == [d \in Channels |-> IF d = c THEN S ELSE {0}]

\* what the host does in a specification: the samples it feeds each channel,
\* the lookahead values and the sample rates it sets, the channel whose
\* input differs in the second run (-1: none), the number of samples it
\* processes (0: no limit, samples not numbered), the bound of the count of
\* ticks since a trigger (0: not counted)
Host(inputs, lookaheads, rates, diff_chan, cap, since_cap) ==
    [inputs |-> inputs, lookaheads |-> lookaheads, rates |-> rates,
     diff_chan |-> diff_chan, cap |-> cap, since_cap |-> since_cap]

\* the parameter settings of the general specification
ParamSet ==
    { [DefaultParams EXCEPT !.stereo_link = One],
      [DefaultParams EXCEPT !.hold = Half, !.release = 3 * Half,
                            !.stereo_link = Half, !.release_amt = One \div 4],
      [DefaultParams EXCEPT !.drive = 2 * One, !.compensate = TRUE,
                            !.release = 2 * One, !.lookahead_accuracy = 2,
                            !.attack_amt = Half, !.trim = -Half],
      [DefaultParams EXCEPT !.hold = One, !.attack_amt = 2 * One,
                            !.atk_env = CurvedShape, !.stereo_link = One],
      [DefaultParams EXCEPT !.hold = 3 * Half, !.release = One,
                            !.attack_amt = 0, !.rel_env = CurvedShape] }

\* the parameter settings with the channels fully linked
LinkedParams == { p \in ParamSet : p.stereo_link = One }

\* the hosts of the general specification: one channel fed, or both
SoloHosts ==
    { Host(Solo(0, InputSamples), Lookaheads, SampleRates, -1, 0, 0),
      Host(Solo(1, InputSamples), Lookaheads, SampleRates, -1, 0, 0) }

StereoHosts ==
    { Host(Stereo(LoudOrSilent), Lookaheads, SampleRates, -1, 0, 0) }

\* ------------------------------------------------------------------------
\* State
\* ------------------------------------------------------------------------

VARIABLES
    params,          \* Limit2zero.params, as the host has set them
    sample_rate,     \* Limit2zero.sample_rate
    channels,        \* Limit2zero.channels
    lookahead_len,   \* Limit2zero.lookahead_len
    latency,         \* the latency last given to context.set_latency_samples
    pc,              \* the position of the host / of process
    chan,            \* process: the channel index i of the inner loop
    sample_id,       \* process: the sample index of the outer loop
    buffer_samples,  \* process: buffer.samples()
    run,             \* Limit2zero.limiters and the per-sample locals
    twin,            \* a second run of the same calls, if the host compares two
    host,            \* what the host does (fixed)
    nsamp,           \* the number of samples processed so far (if counted)
    base,            \* nsamp when the limiters were last built
    built,           \* the sample_len the limiters were last built with
    changed,         \* process has just seen a lookahead length other than the stored one
    probe            \* the last application of a function on its own, and its result

\* the state of the plugin and of its host
plugin == << params, sample_rate, channels, lookahead_len, latency, pc, chan,
             sample_id, buffer_samples, run, twin, host, nsamp, base, built,
             changed >>

vars == << plugin, probe >>

\* no function has been applied on its own
NoProbe == [op |-> "none"]

\* does the host compare two runs
Compares == host.diff_chan \in Channels

\* the second run, next after the step, is kept only if the host compares
\* two runs
Second(next) == IF Compares THEN next ELSE NewRun(LimiterBuffer_new(NumChannels, 0))

\* Limit2zero::default
Constructed(PS, HS) ==
    /\ params \in PS
    /\ host \in HS
    /\ sample_rate = DefaultSampleRate
    /\ channels = 2
    /\ lookahead_len = 0
    /\ latency = 0
    /\ chan = 0
    /\ sample_id = 0
    /\ buffer_samples = 0
    /\ run = NewRun(LimiterBuffer_new(2, DefaultBufferLen))
    /\ twin = Second(NewRun(LimiterBuffer_new(2, DefaultBufferLen)))
    /\ nsamp = 0
    /\ base = 0
    /\ built = DefaultBufferLen
    /\ changed = FALSE
    /\ probe = NoProbe

\* the plugin as constructed, in the hands of a host that initializes it
\* before anything else
InitWith(PS, HS) == Constructed(PS, HS) /\ pc = "new"

\* every parameter setting with one channel fed, the linked ones with both
Init == InitWith(ParamSet, SoloHosts) \/ InitWith(LinkedParams, StereoHosts)

\* Limit2zero::initialize, with the lookahead parameter and the sample rate
\* the host has set
Initialize(la, rate) ==
    /\ pc \in {"new", "idle"}
    /\ LET lookahead_samples == AsUsize(Ceil(ToSamples(la, rate)))
           l == LimiterBuffer_new(NumChannels, lookahead_samples)
       IN  /\ run' = NewRun(l)
           /\ twin' = Second(NewRun(l))
           /\ built' = lookahead_samples
    /\ params' = [params EXCEPT !.lookahead = la]
    /\ sample_rate' = rate
    /\ channels' = NumChannels
    /\ base' = nsamp
    /\ changed' = FALSE
    /\ pc' = "initialized"
    /\ UNCHANGED << lookahead_len, latency, chan, sample_id, buffer_samples,
                    host, probe, nsamp >>

\* Limit2zero::reset
reset(channels_, lookahead_len_) ==
    LimiterBuffer_new(channels_, AsUsize(Ceil(lookahead_len_)))

\* the host calls reset after initialize and whenever it resets the plugin
Reset ==
    /\ pc \in {"initialized", "idle"}
    /\ run' = NewRun(reset(channels, lookahead_len))
    /\ twin' = Second(NewRun(reset(channels, lookahead_len)))
    /\ built' = AsUsize(Ceil(lookahead_len))
    /\ base' = nsamp
    /\ changed' = FALSE
    /\ pc' = "idle"
    /\ UNCHANGED << params, sample_rate, channels, lookahead_len, latency, chan,
                    sample_id, buffer_samples, host, probe, nsamp >>

\* the values process derives from the parameters
lookahead == ToSamples(params.lookahead, sample_rate)
hold      == ToSamples(params.hold, sample_rate)
release   == ToSamples(params.release, sample_rate)
atk_env   == build_envelope(params.atk_env)
rel_env   == build_envelope(params.rel_env)

\* a rebuild only when the lookahead length has grown
LookaheadChanged_Grown(lookahead_, lookahead_len_) == Ceil(lookahead_) > lookahead_len_

\* line 830: has the lookahead length changed
LookaheadChanged(lookahead_, lookahead_len_) == Ceil(lookahead_) # lookahead_len_

\* Limit2zero::process, lines 787-852: a block of n samples arrives, the host
\* having set the lookahead parameter to la
ProcessBegin(la, n) ==
    /\ pc = "idle"
    /\ host.cap > 0 => nsamp + n <= host.cap
    /\ params' = [params EXCEPT !.lookahead = la]
    /\ LET lookahead_ == ToSamples(la, sample_rate)
       IN  /\ changed' = (Ceil(lookahead_) # lookahead_len)
           /\ IF LookaheadChanged(lookahead_, lookahead_len)
              THEN /\ latency' = LatencySamples(lookahead_)
                   /\ lookahead_len' = Ceil(lookahead_)
                   /\ run' = NewRun(reset(channels, Ceil(lookahead_)))
                   /\ twin' = Second(NewRun(reset(channels, Ceil(lookahead_))))
                   /\ built' = AsUsize(Ceil(lookahead_))
                   /\ base' = nsamp
              ELSE UNCHANGED << latency, lookahead_len, run, twin, built, base >>
    /\ buffer_samples' = n
    /\ sample_id' = 0
    /\ chan' = 0
    /\ pc' = "sample"
    /\ UNCHANGED << sample_rate, channels, host, probe, nsamp >>

\* lines 854-866: the next sample index
SampleBegin ==
    /\ pc = "sample"
    /\ run' = SampleLocals(run)
    /\ twin' = Second(SampleLocals(twin))
    /\ nsamp' = IF host.cap > 0 THEN nsamp + 1 ELSE nsamp
    /\ changed' = FALSE
    /\ chan' = 0
    /\ pc' = "push"
    /\ UNCHANGED << params, sample_rate, channels, lookahead_len, latency,
                    sample_id, buffer_samples, host, probe, base, built >>

\* the entry channel c pushes is noted
NotePush(r, c, entry) ==
    IF host.cap > 0 THEN [r EXCEPT !.pushed[c] = Append(@, entry)] ELSE r

\* lines 869-876: channel chan reads its input sample and pushes it; the
\* second run reads s2, the same sample unless chan is the differing channel
Push(s, s2) ==
    /\ pc = "push"
    /\ (chan # host.diff_chan) => (s2 = s)
    /\ run' = NotePush(PushStep(run, chan, s, params.drive, nsamp), chan,
                       new_sample(s, params.drive, nsamp))
    /\ twin' = Second(NotePush(PushStep(twin, chan, s2, params.drive, nsamp), chan,
                               new_sample(s2, params.drive, nsamp)))
    /\ pc' = "tick"
    /\ UNCHANGED << params, sample_rate, channels, lookahead_len, latency, chan,
                    sample_id, buffer_samples, host, probe, nsamp, base, built, changed >>

\* the count of ticks since the last trigger of channel c advances
Ticked(r, c) ==
    [r EXCEPT !.since[c] = IF @ >= 0 THEN Min(@ + 1, host.since_cap) ELSE @]

\* a trigger of channel c is noted
Triggered(r, c, fired) ==
    IF fired /\ host.since_cap > 0
    THEN [r EXCEPT !.since[c] = 0, !.trig[c] = r.limiters.envelope[c]]
    ELSE r

\* r2 is the run r after its attack step: did the retrigger fire
NoteRetrig(r, r2, c) ==
    Triggered([r2 EXCEPT !.retrig[c] =
                   Retriggers(r2.atk_reduction, r.limiters.envelope[c])],
              c, Retriggers(r2.atk_reduction, r.limiters.envelope[c]))

\* r2 is the run r after its clamp step: did the clamp fire
NoteClamp(r, r2, c) ==
    Triggered([r2 EXCEPT !.clamped[c] =
                   ClampFires(r.delay, r.limiters.envelope[c])],
              c, ClampFires(r.delay, r.limiters.envelope[c]))

\* r2 is the run r after its state tick: the state the tick found channel c
\* in is noted
Found(r, r2, c) ==
    IF host.since_cap > 0
    THEN [r2 EXCEPT !.found[c] = r.limiters.state[c].tag]
    ELSE r2

TickOf(r) ==
    Found(r, Ticked(TickStep(r, chan, hold, release, rel_env), chan), chan)

\* lines 879-919
Tick ==
    /\ pc = "tick"
    /\ run' = TickOf(run)
    /\ twin' = Second(TickOf(twin))
    /\ pc' = "attack"
    /\ UNCHANGED << params, sample_rate, channels, lookahead_len, latency, chan,
                    sample_id, buffer_samples, host, probe, nsamp, base, built, changed >>

\* r2 is the run r after its attack step: the number of the entry a rescan
\* has found and remembered is noted
Kept(r, r2, c) ==
    LET B  == r.limiters.buffers[c]
        sc == Rescan(B, 0, [curr_reduct |-> 0, db |-> 0, position |-> 0],
                     atk_env, lookahead_len)
    IN  IF host.cap > 0 /\ IsRescan(lookahead_len, sample_id, params.lookahead_accuracy)
                        /\ sc.db > 0
        THEN [r2 EXCEPT !.kept[c] = B[Len(B) - (sc.position \div One)].seq]
        ELSE r2

AttackOf(r) ==
    Kept(r, NoteRetrig(r, AttackStep(r, chan, lookahead_len, sample_id,
                                     params.lookahead_accuracy, atk_env,
                                     params.attack_amt,
                                     hold, release, params.release_amt),
                       chan),
         chan)

\* lines 924-967
Attack ==
    /\ pc = "attack"
    /\ run' = AttackOf(run)
    /\ twin' = Second(AttackOf(twin))
    /\ pc' = "pop"
    /\ UNCHANGED << params, sample_rate, channels, lookahead_len, latency, chan,
                    sample_id, buffer_samples, host, probe, nsamp, base, built, changed >>

\* lines 969-970
Pop ==
    /\ pc = "pop"
    /\ IF PopPanics(run, chan) \/ (Compares /\ PopPanics(twin, chan))
       THEN pc' = "panic" /\ UNCHANGED << run, twin >>
       ELSE /\ run' = PopStep(run, chan)
            /\ twin' = Second(PopStep(twin, chan))
            /\ pc' = "clamp"
    /\ UNCHANGED << params, sample_rate, channels, lookahead_len, latency, chan,
                    sample_id, buffer_samples, host, probe, nsamp, base, built, changed >>

ClampOf(r) ==
    NoteClamp(r, ClampStep(r, chan, hold, release, params.release_amt), chan)

\* lines 972-990
SafetyClamp ==
    /\ pc = "clamp"
    /\ run' = ClampOf(run)
    /\ twin' = Second(ClampOf(twin))
    /\ IF chan + 1 < NumChannels
       THEN chan' = chan + 1 /\ pc' = "push"
       ELSE chan' = chan /\ pc' = "link"
    /\ UNCHANGED << params, sample_rate, channels, lookahead_len, latency,
                    sample_id, buffer_samples, host, probe, nsamp, base, built, changed >>

\* lines 992-1006: the output frame is written; the next sample or the end
\* of the block
Link ==
    /\ pc = "link"
    /\ run' = LinkStep(run, params.stereo_link, params.trim,
                       Compensation(params.compensate, params.drive))
    /\ twin' = Second(LinkStep(twin, params.stereo_link, params.trim,
                               Compensation(params.compensate, params.drive)))
    /\ sample_id' = sample_id + 1
    /\ pc' = IF sample_id + 1 < buffer_samples THEN "sample" ELSE "idle"
    /\ UNCHANGED << params, sample_rate, channels, lookahead_len, latency, chan,
                    buffer_samples, host, probe, nsamp, base, built, changed >>

Next ==
    \/ \E la \in host.lookaheads, rate \in host.rates : Initialize(la, rate)
    \/ Reset
    \/ \E la \in host.lookaheads, n \in 1..MaxBlock : ProcessBegin(la, n)
    \/ SampleBegin
    \/ \E s \in host.inputs[chan], s2 \in host.inputs[chan] : Push(s, s2)
    \/ Tick
    \/ Attack
    \/ Pop
    \/ SafetyClamp
    \/ Link

Spec == Init /\ [][Next]_vars

\* ------------------------------------------------------------------------
\* The specifications of particular scenarios: the same program, the host
\* restricted to a scenario's parameters and inputs
\* ------------------------------------------------------------------------

\* channel c fed from S, the other channels from T
Beside(c, S, T) == [d \in Channels |-> IF d = c THEN S ELSE T]

\* numbered samples: the host processes MaxSamples samples in all, changing
\* the lookahead between blocks
InitFifo ==
    InitWith({ [DefaultParams EXCEPT !.stereo_link = One],
               [DefaultParams EXCEPT !.hold = One, !.attack_amt = 2 * One,
                                     !.atk_env = CurvedShape] },
             { Host(Beside(0, LoudOrSilent, {One}), Lookaheads, SampleRates,
                    -1, MaxSamples, 0) })

SpecFifo == InitFifo /\ [][Next]_vars

\* scenario A: no hold, no release (and, to compare, a release of 1 sample)
InitA ==
    InitWith({ DefaultParams,
               [DefaultParams EXCEPT !.stereo_link = One],
               [DefaultParams EXCEPT !.release = One] },
             { Host(Stereo(InputSamples), {0, One}, SampleRates, -1, 0, 2) })

SpecA == InitA /\ [][Next]_vars

\* the bound of the count of ticks since a trigger in scenario B
MaxSince == 253

\* scenario B: hold 50 samples, release 200 samples, hold amount 1, the
\* release curve the identity; a channel fed silence, 3 dB or 6 dB over
InitB ==
    InitWith({ [DefaultParams EXCEPT !.hold = 50 * One, !.release = 200 * One] },
             { Host(Solo(0, {0, 3 * Half, -2 * One}), {0}, SampleRates,
                    -1, 0, MaxSince) })

SpecB == InitB /\ [][Next]_vars

\* lookaheads in steps of half a millisecond at two sample rates: fractional
\* lookahead lengths
InitLatency ==
    InitWith({ DefaultParams },
             { Host(Stereo({0}), {k * Half : k \in 0..(2 * MaxLookahead)},
                    FractionalRates, -1, 0, 0) })

SpecLatency == InitLatency /\ [][Next]_vars

\* two runs that differ in the input of one channel
InitTwin ==
    InitWith({ [DefaultParams EXCEPT !.hold = One],
               [DefaultParams EXCEPT !.release = 2 * One, !.stereo_link = One] },
             { Host(Stereo(LoudOrSilent), {0, One}, SampleRates, d, 0, 0) :
                   d \in Channels })

SpecTwin == InitTwin /\ [][Next]_vars

\* peak selection: one channel fed silence or samples 3, 6 or 12 dB over,
\* lookaheads of whole samples, a linear and a curved attack
InitPeak ==
    InitWith({ DefaultParams,
               [DefaultParams EXCEPT !.atk_env = CurvedShape,
                                     !.lookahead_accuracy = 2] },
             { Host(Solo(0, {0, 3 * Half, -2 * One, 4 * One}),
                    {k * One : k \in 1..MaxLookahead}, SampleRates, -1, 0, 0) })

SpecPeak == InitPeak /\ [][Next]_vars

\* ------------------------------------------------------------------------
\* Functions applied on their own: the plugin stays as constructed, probe
\* holds the arguments and the result of the last application
\* ------------------------------------------------------------------------

InitProbe ==
    InitWith({ DefaultParams },
             { Host(Stereo({0}), {0}, SampleRates, -1, 0, 0) })

\* bounds of the limiters and of the channel indices asked of them
MaxChannels == 3
MaxIndex == 5

\* Vec::get_mut(channel).unwrap() on a part of a limiter of l.channels
\* channels: the index of the element, -1 for the panic of unwrap
Part(l, channel) == IF channel < l.channels THEN channel ELSE -1

\* LimiterBuffer::get_mut: the struct Limiter, as the index of the element
\* each of its six references points to
Limiter(l, channel) ==
    [buffer       |-> Part(l, get_mut(l, channel)),
     state        |-> Part(l, get_mut(l, channel)),
     target       |-> Part(l, get_mut(l, channel)),
     hold         |-> Part(l, get_mut(l, channel)),
     envelope     |-> Part(l, get_mut(l, channel)),
     current_peak |-> IF CurrentPeaks_get_mut_panics(l, get_mut(l, channel))
                      THEN -1 ELSE get_mut(l, channel)]

\* has get_mut panicked
Panicked(lim) ==
    \E f \in DOMAIN lim : lim[f] < 0

\* the value v written through every reference of the Limiter lim
WriteThrough(l, lim, v) ==
    [l EXCEPT !.buffers[lim.buffer]  = << SampleDB(v, v, 0) >>,
              !.state[lim.state]     = Hold(v),
              !.target[lim.target]   = v,
              !.hold[lim.hold]       = v,
              !.envelope[lim.envelope] = v,
              !.current_peaks.db[lim.current_peak] = v,
              !.current_peaks.position[lim.current_peak] = v,
              !.current_peaks.lerp_len[lim.current_peak] = v]

\* LimiterBuffer::new(n, len) is built
GetMutNew(n, len) ==
    /\ probe.op \in {"none", "new", "get_mut"}
    /\ probe' = [op |-> "new", channel |-> 0, v |-> 0, panicked |-> FALSE,
                 before |-> LimiterBuffer_new(n, len),
                 after  |-> LimiterBuffer_new(n, len)]
    /\ UNCHANGED plugin

\* get_mut(channel) is called on it and v written through the Limiter
GetMutWrite(channel, v) ==
    /\ probe.op \in {"new", "get_mut"}
    /\ ~probe.panicked
    /\ probe' = [op |-> "get_mut", channel |-> channel, v |-> v,
                 panicked |-> Panicked(Limiter(probe.after, channel)),
                 before |-> probe.after,
                 after  |-> IF Panicked(Limiter(probe.after, channel))
                            THEN probe.after
                            ELSE WriteThrough(probe.after,
                                              Limiter(probe.after, channel), v)]
    /\ UNCHANGED plugin

NextGetMut ==
    \/ \E n \in 1..MaxChannels, len \in 0..1 : GetMutNew(n, len)
    \/ \E channel \in 0..MaxIndex, v \in {Db(-3), Db(-6)} : GetMutWrite(channel, v)

SpecGetMut == InitProbe /\ [][NextGetMut]_vars

\* ------------------------------------------------------------------------
\* src/easing.rs: the curves applied to arguments of their domain
\* ------------------------------------------------------------------------

\* polarities below, at, inside and above the declared range [0, 1]
Polarities == {-One, -1, 0, 1, One \div 2, One - 1, One, One + 1, 2 * One}

\* the powers powf is modelled for, inside the declared range [1/16, 16]
Powers == {One \div 4, One \div 2, One, 2 * One, 4 * One}

\* the progress x a curve is evaluated at: every value of [0, 1]
Progress == 0..One

EaseIns == {EaseIn_new(p, k) : p \in Polarities, k \in Powers}

EaseOuts == {EaseOut_new(p, k) : p \in Polarities, k \in Powers}

\* the ease_in and ease_out halves the S-curves are built of
HalvesIn ==
    {EaseIn_new(One, 2 * One), EaseIn_new(0, One \div 2),
     EaseIn_new(One \div 2, 4 * One)}

HalvesOut ==
    {EaseOut_new(One, 2 * One), EaseOut_new(0, One \div 2),
     EaseOut_new(One \div 2, 4 * One), EaseOut_new(0, 4 * One)}

\* centers inside (0, 1), smoothings of [0, 1]
Centers == {1, One \div 4, One \div 2, One - 1}

Smoothings == {0, One \div 4, One \div 2, One - 10, One}

\* the nested smoothing curves: Linear, and the SCurve<Linear> build_envelope
\* nests
Nested == {Linear, build_envelope(CurvedShape).curve.sm_ease}

SCurves ==
    {SCurve_new(i, o, c, s, n) :
        i \in HalvesIn, o \in HalvesOut, c \in Centers, s \in Smoothings,
        n \in Nested}

\* the curves a LinearBlend wraps
Wrapped ==
    {Linear} \cup HalvesIn \cup HalvesOut
      \cup {c \in SCurves : c.center = One \div 2 /\ c.sm_ease = Linear}

LinearBlends ==
    {LinearBlend_new(c, l) : c \in Wrapped, l \in {0, One \div 2, One}}

\* the curves that are built
Curves == {Linear} \cup EaseIns \cup EaseOuts \cup SCurves \cup LinearBlends

\* a curve c is built and an argument x chosen
EaseArgs ==
    /\ probe.op = "none"
    /\ \E c \in Curves, x \in Progress :
          probe' = [op |-> "args", curve |-> c, x |-> x, y |-> 0]
    /\ UNCHANGED plugin

\* Ease::process of a curve of the given kind
EaseApply(kind) ==
    /\ probe.op = "args"
    /\ probe.curve.kind = kind
    /\ probe' = [probe EXCEPT !.op = "process",
                              !.y = process(probe.curve, probe.x)]
    /\ UNCHANGED plugin

NextEase ==
    \/ EaseArgs
    \/ EaseApply("Linear")
    \/ EaseApply("EaseIn")
    \/ EaseApply("EaseOut")
    \/ EaseApply("SCurve")
    \/ EaseApply("LinearBlend")

SpecEase == InitProbe /\ [][NextEase]_vars

\* build_envelope applied to two shapes that differ in linearity only,
\* lo <= hi, with the smoothing amount amt
BuildArgs ==
    /\ probe.op = "none"
    /\ \E lo \in Progress, hi \in Progress, amt \in Smoothings :
          /\ lo <= hi
          /\ probe' = [op |-> "shapes",
                       lo |-> [DefaultShape EXCEPT !.linearity = lo,
                                                   !.smooth_amount = amt],
                       hi |-> [DefaultShape EXCEPT !.linearity = hi,
                                                   !.smooth_amount = amt],
                       at_lo |-> Linear, at_hi |-> Linear]
    /\ UNCHANGED plugin

BuildApply ==
    /\ probe.op = "shapes"
    /\ probe' = [probe EXCEPT !.op = "build_envelope",
                              !.at_lo = build_envelope(probe.lo),
                              !.at_hi = build_envelope(probe.hi)]
    /\ UNCHANGED plugin

NextBuild == BuildArgs \/ BuildApply

SpecBuild == InitProbe /\ [][NextBuild]_vars

\* ------------------------------------------------------------------------
\* The envelope state machine: holds and releases of whole and fractional
\* numbers of samples, the ticks since the last trigger counted
\* ------------------------------------------------------------------------

\* the bound of the count of ticks since a trigger
MaxTicks == 6

\* hold and release lengths in samples: none, a third, a half, 1, 1.5, 2
Lengths == {0, One \div 3, Half, One, 3 * Half, 2 * One}

InitEnv ==
    InitWith({ [DefaultParams EXCEPT !.hold = h, !.release = r, !.release_amt = a] :
                   h \in Lengths, r \in Lengths, a \in {One, One \div 4} },
             { Host(Solo(0, LoudOrSilent), {0, One}, SampleRates, -1, 0, MaxTicks) })

SpecEnv == InitEnv /\ [][Next]_vars

\* lifecycles: the plugin as constructed, in the hands of a host that either
\* initializes and resets it first or calls process (or reset) on it at
\* once; samples are numbered and at most MaxSamples are processed
InitLifecycle ==
    /\ Constructed({ DefaultParams },
                   { Host(Solo(0, LoudOrSilent), {0, One}, SampleRates, -1, MaxSamples, 0) })
    /\ pc \in {"new", "idle"}

SpecLifecycle == InitLifecycle /\ [][Next]_vars

\* strides: numbered samples, one channel fed silence or samples 3 or 6 dB
\* over, lookaheads of 1 and 2 samples, a rescan every second sample of a
\* block with a linear attack or every third with a curved one
InitStride ==
    InitWith({ [DefaultParams EXCEPT !.lookahead_accuracy = 2],
               [DefaultParams EXCEPT !.lookahead_accuracy = 3,
                                     !.atk_env = CurvedShape] },
             { Host(Solo(0, {0, 3 * Half, -2 * One}), {One, 2 * One}, SampleRates,
                    -1, MaxSamples, 0) })

SpecStride == InitStride /\ [][Next]_vars

\* the number of samples processed where the recovery of the envelope is
\* followed
MaxRecovery == 9

\* recovery: numbered samples, one channel fed silence or a sample 6 dB
\* over, no lookahead or one sample of it, a hold and a release of one
\* sample each or a release of 2.5 samples alone
InitRecovery ==
    InitWith({ [DefaultParams EXCEPT !.hold = One, !.release = One],
               [DefaultParams EXCEPT !.release = 5 * Half] },
             { Host(Solo(0, LoudOrSilent), {la}, SampleRates, -1, MaxRecovery, 0) :
                   la \in {0, One} })

SpecRecovery == InitRecovery /\ [][Next]_vars

\* quiet inputs: numbered samples, the first channel fed half of full scale
\* or twice full scale, the second half of full scale; a drive of 1 or 2,
\* with and without trim and compensation
InitQuiet ==
    InitWith({ [DefaultParams EXCEPT !.hold = One, !.release = One,
                                     !.stereo_link = Half],
               [DefaultParams EXCEPT !.drive = 2 * One, !.compensate = TRUE,
                                     !.trim = -Half, !.hold = One,
                                     !.lookahead_accuracy = 2] },
             { Host(Beside(0, {Half, -2 * One}, {Half}),
                    {0, One}, SampleRates, -1, MaxSamples, 0) })

SpecQuiet == InitQuiet /\ [][Next]_vars

\* ------------------------------------------------------------------------
\* src/editor.rs: the curves the editor draws.  The probe holds the
\* resolution asked for and the points returned.
\* ------------------------------------------------------------------------

\* bound of the resolution
MaxResolution == 4

\* a point (x, y); nan: x and y are NaN, the fields x and y then hold 0
GraphPoint(x, y) == [nan |-> FALSE, x |-> x, y |-> y]

NaNPoint == [nan |-> TRUE, x |-> 0, y |-> 0]

\* let x = i as f32 / resolution as f32, for a resolution over 0
graph_x(i, resolution) == Div(i * One, resolution * One)

\* a release graph whose loop leaves the last index out: 0..resolution
generate_release_graph_Exclusive(p, resolution) ==
    LET envelope == build_envelope(p.rel_env)
    IN  [k \in 1..resolution |->
            GraphPoint(graph_x(k - 1, resolution),
                       process(envelope, graph_x(k - 1, resolution)))]

\* fn generate_release_graph(params, resolution): the points pushed for
\* i in 0..=resolution; at resolution 0 the one x is 0.0 / 0.0
generate_release_graph(p, resolution) ==
    LET envelope == build_envelope(p.rel_env)
    IN  [k \in 1..(resolution + 1) |->
            IF resolution = 0 THEN NaNPoint
            ELSE GraphPoint(graph_x(k - 1, resolution),
                            process(envelope, graph_x(k - 1, resolution)))]

\* fn generate_attack_graph(params, resolution)
generate_attack_graph(p, resolution) ==
    LET envelope == build_envelope(p.atk_env)
    IN  [k \in 1..(resolution + 1) |->
            IF resolution = 0 THEN NaNPoint
            ELSE GraphPoint(graph_x(k - 1, resolution),
                            One - process(envelope, graph_x(k - 1, resolution)))]

\* the shapes of the curves drawn
GraphShapes ==
    { DefaultShape, CurvedShape,
      [DefaultShape EXCEPT !.linearity = Half, !.center = One \div 4,
                           !.smooth_amount = One \div 4] }

InitGraph ==
    InitWith({ [DefaultParams EXCEPT !.atk_env = a, !.rel_env = r] :
                  a \in GraphShapes, r \in GraphShapes },
             { Host(Stereo({0}), {0}, SampleRates, -1, 0, 0) })

\* a resolution is chosen
GraphArgs ==
    /\ probe.op = "none"
    /\ \E r \in 0..MaxResolution :
          probe' = [op |-> "resolution", resolution |-> r, points |-> << >>]
    /\ UNCHANGED plugin

AttackGraph ==
    /\ probe.op = "resolution"
    /\ probe' = [probe EXCEPT
                    !.op = "generate_attack_graph",
                    !.points = generate_attack_graph(params, probe.resolution)]
    /\ UNCHANGED plugin

ReleaseGraph ==
    /\ probe.op = "resolution"
    /\ probe' = [probe EXCEPT
                    !.op = "generate_release_graph",
                    !.points = generate_release_graph(params, probe.resolution)]
    /\ UNCHANGED plugin

NextGraph == GraphArgs \/ AttackGraph \/ ReleaseGraph

SpecGraph == InitGraph /\ [][NextGraph]_vars

\* ------------------------------------------------------------------------
\* src/editor.rs: the gain-reduction history of the editor.  The probe holds
\* the GUIData: the atomics shared with whoever created the editor and the
\* three history queues.
\* ------------------------------------------------------------------------

\* the entries of a history queue
HistoryLen == 300

\* bounds of the stores to the atomics and of the timer ticks
MaxStores == 3
MaxUpdates == 3

\* the level stored to an atomic
Levels == {Db(-6)}

\* a [f32; 2] of one value
Both(v) == << v, v >>

\* GRBuffer::default
GRBuffer_default ==
    [pre  |-> [k \in 1..HistoryLen |-> Both(MinusInfDb)],
     post |-> [k \in 1..HistoryLen |-> Both(MinusInfDb)],
     env  |-> [k \in 1..HistoryLen |-> Both(0)]]

\* VecDeque::pop_front, VecDeque::push_back
pop_front(q) == IF q = << >> THEN q ELSE Tail(q)

push_back(q, v) == Append(q, v)

\* an update that pops nothing
update_buffers_NoPop(g) ==
    [g EXCEPT !.gr_atomics = [pre |-> Both(0), post |-> Both(0), env |-> Both(0)],
              !.gr_buffer.pre  = push_back(@, g.gr_atomics.pre),
              !.gr_buffer.post = push_back(@, g.gr_atomics.post),
              !.gr_buffer.env  = push_back(@, g.gr_atomics.env)]

\* GUIData::update_buffers: each atomic is swapped with 0.0, each queue
\* loses its front and gets the values swapped out at its back
update_buffers(g) ==
    [g EXCEPT !.gr_atomics = [pre |-> Both(0), post |-> Both(0), env |-> Both(0)],
              !.gr_buffer.pre  = push_back(pop_front(@), g.gr_atomics.pre),
              !.gr_buffer.post = push_back(pop_front(@), g.gr_atomics.post),
              !.gr_buffer.env  = push_back(pop_front(@), g.gr_atomics.env)]

\* GRBuffer::same: "true", "false", or "panic" where post or env is indexed
\* past its end
GRBuffer_same(self, other) ==
    LET Past(i)    == \/ i > Len(self.post) \/ i > Len(other.post)
                      \/ i > Len(self.env)  \/ i > Len(other.env)
        Differs(i) == \/ self.pre[i]  # other.pre[i]
                      \/ self.post[i] # other.post[i]
                      \/ self.env[i]  # other.env[i]
        Stops      == { i \in 1..Len(self.pre) : Past(i) \/ Differs(i) }
    IN  IF Len(self.pre) # Len(other.pre) THEN "false"
        ELSE IF Stops = {} THEN "true"
        ELSE IF Past(CHOOSE i \in Stops : \A j \in Stops : i <= j) THEN "panic"
        ELSE "false"

\* editor::create: the GUIData built around the atomics handed in
Create ==
    /\ probe.op = "none"
    /\ probe' = [op |-> "create",
                 gr_atomics |-> [pre |-> Both(0), post |-> Both(0), env |-> Both(0)],
                 gr_buffer |-> GRBuffer_default,
                 was |-> GRBuffer_default, same |-> "true",
                 stores |-> 0, updates |-> 0]
    /\ UNCHANGED plugin

\* a holder of the atomics stores a level to one of them
Store ==
    /\ probe.op # "none"
    /\ probe.stores < MaxStores
    /\ \E a \in {"pre", "post", "env"}, i \in 1..2, v \in Levels :
          probe' = [probe EXCEPT !.op = "store", !.gr_atomics[a][i] = v,
                                 !.stores = @ + 1]
    /\ UNCHANGED plugin

\* GUIEvent::UpdateGRVizulization, on the timer: update_buffers, and the
\* new history compared with the one before
UpdateBuffers ==
    /\ probe.op # "none"
    /\ probe.updates < MaxUpdates
    /\ LET g == update_buffers(probe)
       IN  probe' = [g EXCEPT !.op = "update_buffers",
                              !.was = probe.gr_buffer,
                              !.same = GRBuffer_same(g.gr_buffer, probe.gr_buffer),
                              !.updates = @ + 1]
    /\ UNCHANGED plugin

NextGUI == Create \/ Store \/ UpdateBuffers

SpecGUI == InitProbe /\ [][NextGUI]_vars

\* ------------------------------------------------------------------------
\* Properties
\* ------------------------------------------------------------------------

\* the steps of channel c of the current sample are not under way
Settled(c) == pc \in {"new", "initialized", "idle", "sample", "link"} \/ chan # c
                 \/ pc = "push"

Written(r, c) == r.out[c].written

C3_BufferLength ==
    \A c \in Channels :
        LET len == Len(run.limiters.buffers[c])
        IN  IF pc \in {"tick", "attack", "pop"} /\ chan = c
            THEN len = built + 1
            ELSE len = built

\* a sample has been processed through a primed buffer that now holds a
\* loud sample
C3_Witness ==
    /\ pc = "link" /\ built = 2
    /\ \E c \in Channels : /\ Len(run.limiters.buffers[c]) = 2
                           /\ run.limiters.buffers[c][1].db > 0

\* C4 -- FIFO delay: the entry a channel pops at the k-th sample since its
\* buffer was built is the entry that channel pushed at sample k - L, L the
\* lookahead length in samples, and the silence the buffer was primed with
\* while k <= L; with L = 0 it is the entry pushed in the same iteration.
C4_FifoDelay ==
    pc = "clamp" =>
        LET k == Len(run.pushed[chan])
            L == AsUsize(lookahead_len)
        IN  /\ k = nsamp - base
            /\ IF k <= L THEN run.delay = Silence
               ELSE /\ run.delay = run.pushed[chan][k - L]
                    /\ run.delay.seq = nsamp - L

\* with a lookahead of 2 samples the third sample pops the loud entry the
\* first sample pushed
C4_Witness ==
    /\ pc = "clamp" /\ lookahead_len = 2 * One
    /\ Len(run.pushed[chan]) = 3
    /\ run.delay.db > 0 /\ run.delay = run.pushed[chan][1]

\* C5 -- scenario A: with no lookahead, no hold and no release, a sample
\* 6 dB over the ceiling is output with an envelope of -6 dB, at the
\* ceiling when that is the reduction applied to it, and a sample at or
\* below the ceiling (the one after it too) is output with envelope 0.
C5_ScenarioA ==
    (lookahead_len = 0 /\ hold = 0 /\ release = 0) =>
        \A c \in Channels :
            Written(run, c) =>
                /\ run.out[c].db = Db(6) =>
                      /\ run.out[c].envelope = Db(-6)
                      /\ run.out[c].gain_db = run.out[c].envelope =>
                             Abs(run.out[c].value) = One
                /\ run.out[c].db <= 0 => run.out[c].envelope = 0

\* the sample after a clamp to -6 dB has been output with envelope 0
C5_Witness ==
    /\ lookahead_len = 0 /\ hold = 0 /\ release = 0
    /\ \E c \in Channels :
          /\ Written(run, c) /\ run.out[c].db <= 0
          /\ run.since[c] = 1 /\ run.trig[c] = Db(-6)
          /\ run.out[c].envelope = 0 /\ run.limiters.envelope[c] = 0

InLoop == pc \in {"sample", "push", "tick", "attack", "pop", "clamp", "link"}

\* C7 -- rebuild: when process has seen a lookahead length other than the
\* stored one, before the first sample of the block every channel's buffer
\* is new_L entries of silence, its state Off, its envelope, target and
\* hold value 0, and its remembered peak yields no candidate; no entry
\* pushed before the rebuild is in a buffer or in the output afterwards,
\* and in the loop every channel's buffer has the new length.
C7_Rebuild ==
    /\ (pc = "sample" /\ changed) =>
          \A c \in Channels :
             /\ run.limiters.buffers[c] =
                    [k \in 1..AsUsize(Ceil(lookahead)) |-> Silence]
             /\ run.limiters.state[c] = Off
             /\ run.limiters.envelope[c] = 0
             /\ run.limiters.target[c] = 0
             /\ run.limiters.hold[c] = 0
             /\ ~read(CurrentPeak(run.limiters, c), atk_env).some
    /\ \A c \in Channels :
          /\ Written(run, c) => (run.out[c].seq = 0 \/ run.out[c].seq > base)
          /\ InLoop =>
                /\ \A k \in DOMAIN run.limiters.buffers[c] :
                      \/ run.limiters.buffers[c][k].seq = 0
                      \/ run.limiters.buffers[c][k].seq > base
                /\ Len(run.limiters.buffers[c]) \in
                      {AsUsize(Ceil(lookahead)), AsUsize(Ceil(lookahead)) + 1}

\* in mid-stream a block arrives with a shorter lookahead: the buffers have
\* been rebuilt
C7_Witness ==
    /\ pc = "sample" /\ changed /\ base = nsamp /\ nsamp >= 2
    /\ AsUsize(Ceil(lookahead)) = 1
    /\ \A c \in Channels : run.limiters.buffers[c] = << Silence >>

\* C8 -- reported latency: the latency last reported (0 before any report)
\* is ceil(L / 2), L the stored lookahead length, a whole number of samples;
\* when the lookahead length has changed, L is the ceil of the lookahead in
\* samples, fractional or not.
C8_Latency ==
    /\ latency = (AsUsize(lookahead_len) + 1) \div 2
    /\ lookahead_len % One = 0
    /\ (pc = "sample" /\ changed) =>
          /\ lookahead_len = Ceil(lookahead)
          /\ latency = (AsUsize(Ceil(lookahead)) + 1) \div 2

\* a lookahead of 2.25 samples: 3 samples of buffer, a latency of 2
C8_Witness ==
    /\ pc = "sample" /\ changed
    /\ lookahead % One # 0 /\ AsUsize(lookahead_len) = 3 /\ latency = 2

\* C9 -- stereo-link extremes: in every output frame, with stereo_link = 1
\* the reduction applied to each channel is the minimum of the channels'
\* envelopes, with stereo_link = 0 it is the channel's own envelope.
C9_StereoLink ==
    (\A c \in Channels : Written(run, c)) =>
        \A c \in Channels :
            /\ params.stereo_link = One =>
                  run.out[c].reduce = Min(run.out[0].envelope, run.out[1].envelope)
            /\ params.stereo_link = 0 =>
                  run.out[c].reduce = run.out[c].envelope

\* a frame whose channels have different envelopes, fully linked
C9_Witness ==
    /\ params.stereo_link = One
    /\ \A c \in Channels : Written(run, c)
    /\ run.out[0].envelope < run.out[1].envelope
    /\ run.out[1].reduce = run.out[0].envelope

\* what the limiters hold for channel c
ChannelState(r, c) ==
    [buffer |-> r.limiters.buffers[c], state |-> r.limiters.state[c],
     target |-> r.limiters.target[c], hold |-> r.limiters.hold[c],
     envelope |-> r.limiters.envelope[c],
     current_peak |-> CurrentPeak(r.limiters, c)]

\* C10 -- channel independence: in two runs that differ only in the input
\* of one channel, the other channel's buffer, state, target, hold value,
\* envelope and remembered peak are the same at every step, and so is its
\* output when stereo_link = 0.
C10_Independence ==
    \A c \in Channels :
        (host.diff_chan \in Channels /\ c # host.diff_chan) =>
            /\ ChannelState(run, c) = ChannelState(twin, c)
            /\ params.stereo_link = 0 => run.out[c] = twin.out[c]

\* the two runs have output different envelopes for the channel that
\* differs while the other channel was limiting, unlinked
C10_Witness ==
    /\ params.stereo_link = 0 /\ host.diff_chan \in Channels
    /\ \E c \in Channels :
          /\ c # host.diff_chan
          /\ Written(run, c) /\ run.out[c].envelope < 0
          /\ run.out[host.diff_chan].envelope # twin.out[host.diff_chan].envelope

\* the ages (0: the entry just pushed) of the over-threshold entries of a
\* buffer, and the reduction the entry of age i stands for
PeakAges(B) == {i \in 0..(Len(B) - 1) : peak(B[Len(B) - i])}

PeakReduct(B, i) ==
    calc_atk_reduction(B[Len(B) - i].db,
                       process(atk_env, Div((i + 1) * One, lookahead_len + One)))

\* the entry of age i is the youngest of those of least reduction among A
Selected(B, A, i) ==
    \A j \in A : \/ PeakReduct(B, i) < PeakReduct(B, j)
                 \/ PeakReduct(B, i) = PeakReduct(B, j) /\ i <= j

\* is the sample under way one that rescans the buffer
Rescanned == IsRescan(lookahead_len, sample_id, params.lookahead_accuracy)

\* Peak selection as the claim has it: the entry used maximizes
\* age * level_db
C11_AsClaimed ==
    (pc = "pop" /\ Rescanned /\ PeakAges(run.limiters.buffers[chan]) # {}) =>
        LET B == run.limiters.buffers[chan]
            i == run.limiters.current_peaks.position[chan] \div One
        IN  /\ i \in PeakAges(B)
            /\ run.limiters.current_peaks.db[chan] = B[Len(B) - i].db
            /\ \A j \in PeakAges(B) :
                  i * B[Len(B) - i].db >= j * B[Len(B) - j].db

\* C11 -- peak selection: at every rescan, among the buffered entries over
\* threshold the one used for the attack candidate is the youngest of those
\* with the least reduction lerp(0, -level_db, atk_env((age + 1) /
\* (lookahead_len + 1))), if that is below 0: it becomes the remembered
\* peak and the candidate is its reduction times the attack amount;
\* otherwise the candidate is 0.
C11_PeakSelection ==
    (pc = "pop" /\ Rescanned) =>
        LET B == run.limiters.buffers[chan]
            A == {i \in PeakAges(B) : PeakReduct(B, i) < 0}
        IN  IF A = {} THEN run.atk_reduction = 0
            ELSE \E i \in A :
                    /\ Selected(B, A, i)
                    /\ run.limiters.current_peaks.position[chan] = i * One
                    /\ run.limiters.current_peaks.db[chan] = B[Len(B) - i].db
                    /\ run.limiters.current_peaks.lerp_len[chan] = lookahead_len
                    /\ run.atk_reduction =
                           Mul(PeakReduct(B, i), params.attack_amt)

\* a rescan has found two entries of equal reduction and taken the younger
C11_Witness ==
    /\ pc = "pop" /\ Rescanned
    /\ LET B == run.limiters.buffers[chan]
       IN  \E i, j \in PeakAges(B) :
              /\ i < j /\ PeakReduct(B, i) = PeakReduct(B, j)
              /\ PeakReduct(B, i) < 0
              /\ Selected(B, PeakAges(B), i)
              /\ run.limiters.current_peaks.position[chan] = i * One

\* C12 -- vectorized peak search: at every rescan with the identity attack
\* curve and attack amount 1, simd_max_reduction of the buffered dB values
\* (newest first) with len = lookahead_len + 1 is the candidate reduction
\* of the scalar rescan, 0 when no entry is over threshold.
C12_SimdEquivalence ==
    (pc = "pop" /\ Rescanned /\ params.atk_env.linearity = One
                /\ params.attack_amt = One) =>
        /\ run.atk_reduction =
               simd_max_reduction(DbVectors(run.limiters.buffers[chan]),
                                  lookahead_len + One)
        /\ PeakAges(run.limiters.buffers[chan]) = {} => run.atk_reduction = 0

\* a rescan of three entries, two vectors, the over-threshold entry that
\* decides in the second
C12_Witness ==
    /\ pc = "pop" /\ Rescanned /\ params.atk_env.linearity = One
    /\ params.attack_amt = One
    /\ Len(run.limiters.buffers[chan]) = 3
    /\ run.limiters.current_peaks.position[chan] = 2 * One
    /\ run.atk_reduction = -run.limiters.buffers[chan][1].db
    /\ run.atk_reduction < 0

\* the six parts of channel c of the limiters l
Parts(l, c) == ChannelState([limiters |-> l], c)

\* the six parts of a channel all written with v
PartsWritten(v) ==
    [buffer |-> << SampleDB(v, v, 0) >>, state |-> Hold(v), target |-> v,
     hold |-> v, envelope |-> v,
     current_peak |-> [db |-> v, position |-> v, lerp_len |-> v]]

\* C13 -- channel index clamping: get_mut(channel) on limiters of at least
\* one channel never fails, and what is written through the Limiter it
\* returns lands, all six parts of it, in channel min(channel, channels - 1)
\* and in no other channel.
C13_GetMutClamps ==
    probe.op = "get_mut" =>
        /\ ~probe.panicked
        /\ \A d \in 0..(probe.before.channels - 1) :
              IF d = Min(probe.channel, probe.before.channels - 1)
              THEN Parts(probe.after, d) = PartsWritten(probe.v)
              ELSE Parts(probe.after, d) = Parts(probe.before, d)

\* an index past the last channel has written to the last of three channels
C13_Witness ==
    /\ probe.op = "get_mut" /\ ~probe.panicked
    /\ probe.before.channels = 3 /\ probe.channel > 2
    /\ Parts(probe.before, 2) # PartsWritten(probe.v)
    /\ Parts(probe.after, 2) = PartsWritten(probe.v)

\* the positions of the per-sample loop of one channel
ChannelLoop == {"push", "tick", "attack", "pop", "clamp"}

\* C14 -- no panic in the per-sample path: the unwrap of pop_front is never
\* reached with an empty buffer (the buffer holds at least the sample just
\* pushed, also with lookahead 0), the stride la_acc of the rescan test
\* sample_id % la_acc is at least 1, the channel and sample indices the loop
\* unwraps are inside the host's buffer, the current peak of the channel
\* exists, and the output loop finds one sample and one reduction per channel.
C14_NoPanic ==
    /\ pc # "panic"
    /\ pc = "pop" => ~PopPanics(run, chan)
    /\ pc \in ChannelLoop =>
          /\ params.lookahead_accuracy >= 1
          /\ chan < NumChannels /\ sample_id < buffer_samples
          /\ Part(run.limiters, get_mut(run.limiters, chan)) >= 0
          /\ ~CurrentPeaks_get_mut_panics(run.limiters, get_mut(run.limiters, chan))
    /\ pc = "link" => Len(run.rv_samples) = NumChannels

\* the delayed sample has been popped with lookahead 0: the buffer held
\* only the sample pushed for this very index
C14_Witness ==
    /\ pc = "clamp" /\ lookahead_len = 0
    /\ run.delay # NoDelay
    /\ Len(run.limiters.buffers[get_mut(run.limiters, chan)]) = 0

\* Ease::process has been applied to a curve of the given kind
Processed(kind) == probe.op = "process" /\ probe.curve.kind = kind

\* C15 -- easing boundary: for every polarity of [0, 1] (0, 1 and values
\* strictly between) and every power > 0, EaseIn.process and EaseOut.process
\* map 0 to 0 and 1 to 1.
C15_EasingBoundary ==
    (/\ Processed("EaseIn") \/ Processed("EaseOut")
     /\ probe.curve.polarity \in 0..One
     /\ probe.x \in {0, One})
        => probe.y = probe.x

\* an EaseOut of a polarity strictly between 0 and 1 has mapped 1 to 1
C15_Witness ==
    /\ Processed("EaseOut")
    /\ probe.curve.polarity = One \div 2 /\ probe.curve.power = One \div 4
    /\ probe.x = One /\ probe.y = One

\* C16 -- LinearBlend extremes: for every wrapped curve and every x of
\* [0, 1], a LinearBlend of linearity 1 returns x and a LinearBlend of
\* linearity 0 returns the value of the wrapped curve at x.
C16_LinearBlendExtremes ==
    Processed("LinearBlend") =>
        /\ probe.curve.linearity = One => probe.y = probe.x
        /\ probe.curve.linearity = 0 =>
              probe.y = process(probe.curve.curve, probe.x)

\* a LinearBlend of linearity 1 has returned x where the S-curve it wraps
\* has another value
C16_Witness ==
    /\ Processed("LinearBlend")
    /\ probe.curve.linearity = One /\ probe.curve.curve.kind = "SCurve"
    /\ process(probe.curve.curve, probe.x) # probe.x
    /\ probe.y = probe.x

\* C17 -- identity curve: Linear.process(x) = x for every x of [0, 1].
C17_Identity ==
    Processed("Linear") => probe.y = probe.x

\* Linear has returned 1/2 at 1/2
C17_Witness ==
    Processed("Linear") /\ probe.x = One \div 2 /\ probe.y = One \div 2

\* values[0] and values[1] of SCurve::process of c at x
InRegion(c, x) ==
    SCurve_in(c, Div(x, smoothing_end(c)), smoothing_end(c))

OutRegion(c, x) ==
    SCurve_out(c, Div(x - smoothing_start(c), One - smoothing_start(c)),
               One - smoothing_start(c), smoothing_start(c))

\* the crossfade of the two regions of c at x
Crossfade(c, x) ==
    lerp(InRegion(c, x), OutRegion(c, x),
         process(c.sm_ease,
                 Div(x - smoothing_start(c), smoothing_end(c) - smoothing_start(c))))

\* C18 -- SCurve continuity: with a nested curve N, N(0) = 0 and N(1) = 1,
\* the value at x = smoothing_start is the in-region value alone, the value
\* at x = smoothing_end is the out-region value alone, and strictly between
\* the two bounds the value is, within one Epsilon, the crossfade of the two
\* regions by N, which is the in-region value where N is 0 and the
\* out-region value where N is 1: no jump at either bound.
C18_Continuity ==
    (/\ Processed("SCurve")
     /\ process(probe.curve.sm_ease, 0) = 0
     /\ process(probe.curve.sm_ease, One) = One)
        => /\ probe.x = smoothing_start(probe.curve) =>
                 probe.y = InRegion(probe.curve, probe.x)
           /\ probe.x = smoothing_end(probe.curve) =>
                 probe.y = OutRegion(probe.curve, probe.x)
           /\ (/\ probe.x > smoothing_start(probe.curve)
               /\ probe.x < smoothing_end(probe.curve))
                 => Abs(probe.y - Crossfade(probe.curve, probe.x)) <= Epsilon

\* the curve c with its polarity replaced by p
WithPolarity(c, p) == [c EXCEPT !.polarity = p]

\* C19 -- polarity clamping: an EaseIn or EaseOut of polarity > 1 has at
\* every x the value of the same curve of polarity 1, one of polarity < 0
\* the value of the same curve of polarity 0, and every polarity yields a
\* number.
C19_PolarityClamp ==
    (Processed("EaseIn") \/ Processed("EaseOut")) =>
        /\ probe.y \in Int
        /\ probe.curve.polarity > One =>
              probe.y = process(WithPolarity(probe.curve, One), probe.x)
        /\ probe.curve.polarity < 0 =>
              probe.y = process(WithPolarity(probe.curve, 0), probe.x)

\* an EaseOut of polarity 2 has the value of polarity 1 where a polarity
\* between 0 and 1 has another
C19_Witness ==
    /\ Processed("EaseOut") /\ probe.curve.polarity = 2 * One
    /\ probe.y = process(WithPolarity(probe.curve, One), probe.x)
    /\ probe.y # process(WithPolarity(probe.curve, One \div 2), probe.x)

\* C20 -- envelope non-positivity at all times: every channel's envelope is
\* at most 0 at every point of the per-sample processing, after the state
\* tick as well as after the attack retrigger and the safety clamp, also
\* when hold and release are fractional numbers of samples.
C20_EnvelopeNonPositiveAlways ==
    \A c \in Channels : run.limiters.envelope[c] <= 0

\* the state tick of channel c has just run, s ticks after the last trigger
\* of the channel (retrigger or clamp), s below the bound of the count
TickedSince(c, s) ==
    pc = "attack" /\ chan = c /\ run.since[c] = s /\ s >= 1 /\ s < MaxTicks

ReleaseFrom(c, t) ==
    lerp(HoldValue(run.trig[c], params.release_amt), 0, process(rel_env, t))

\* a trigger of channel c enters Release(0): no hold, a release of a sample
\* or more after rounding
EntersRelease == Round(hold) < One /\ Round(release) >= One

Fired(c) == run.retrig[c] \/ run.clamped[c]

\* the claim as stated: the lengths are compared with 1 sample as they are
C23_AsClaimed ==
    \A c \in Channels :
        Fired(c) =>
            run.limiters.state[c] =
                IF hold >= One THEN Hold(0)
                ELSE IF release >= One THEN Release(0)
                ELSE Off

\* C23 -- state entered on a trigger: whenever the attack retrigger or the
\* safety clamp has fired for a channel, the channel's state is Hold(0) if
\* hold rounds to 1 sample or more (hold >= 0.5), else Release(0) if release
\* rounds to 1 sample or more, else Off, for whole and fractional lengths
\* and for both steps alike.
C23_TriggerState ==
    \A c \in Channels :
        Fired(c) =>
            run.limiters.state[c] =
                IF hold >= Half THEN Hold(0)
                ELSE IF release >= Half THEN Release(0)
                ELSE Off

\* the attack retrigger alone has fired with a reduction below 0, the hold
\* half a sample: the state is Hold(0)
C23_Witness ==
    /\ run.retrig[0] /\ ~run.clamped[0] /\ run.atk_reduction < 0 /\ pc = "pop"
    /\ hold = Half /\ run.limiters.state[0] = Hold(0)

\* the state, elapsed counter, target, hold value and envelope of channel c
\* of the limiters l
EnvelopeParts(l, c) ==
    << l.state[c], l.target[c], l.hold[c], l.envelope[c] >>

\* C24 -- attack retrigger: the attack step of a channel, its candidate
\* being atk_reduction, changes the channel's envelope parts only when the
\* candidate is strictly below the envelope, and then sets envelope =
\* target = candidate, hold value = candidate * sqrt(hold amount) and the
\* state to the one a trigger enters, elapsed 0; with a candidate equal to
\* or above the envelope the state, elapsed counter, target, hold value and
\* envelope are as before.
C24_AttackRetrigger ==
    [][ pc = "attack" =>
          IF run'.atk_reduction < run.limiters.envelope[chan]
          THEN /\ run'.limiters.envelope[chan] = run'.atk_reduction
               /\ run'.limiters.target[chan] = run'.atk_reduction
               /\ run'.limiters.hold[chan] =
                     Mul(run'.atk_reduction, Sqrt(params.release_amt))
               /\ run'.limiters.state[chan] \in {Hold(0), Release(0), Off}
               /\ run'.limiters.state[chan] = TriggerState(hold, release)
          ELSE EnvelopeParts(run'.limiters, chan) = EnvelopeParts(run.limiters, chan)
      ]_vars

\* a candidate equal to the envelope, below 0, has left a running Hold as
\* it was
C24_Witness ==
    /\ pc = "pop" /\ ~run.retrig[chan]
    /\ run.atk_reduction < 0
    /\ run.atk_reduction = run.limiters.envelope[chan]
    /\ run.limiters.state[chan] = Hold(One)

\* C25 -- safety clamp: the clamp step of a channel, delay being the sample
\* just popped, fires exactly when delay.db + envelope > 0, and then sets
\* envelope = target = -delay.db, so that delay.db + envelope = 0, hold
\* value = target * sqrt(hold amount) and the state to the one a trigger
\* enters; when delay.db + envelope <= 0 the state, target, hold value and
\* envelope are as before.
C25_SafetyClamp ==
    [][ pc = "clamp" =>
          /\ run'.clamped[chan] = (run.delay.db + run.limiters.envelope[chan] > 0)
          /\ IF run.delay.db + run.limiters.envelope[chan] > 0
             THEN /\ run'.limiters.envelope[chan] = -run.delay.db
                  /\ run'.limiters.target[chan] = -run.delay.db
                  /\ run.delay.db + run'.limiters.envelope[chan] = 0
                  /\ run'.limiters.hold[chan] =
                        Mul(-run.delay.db, Sqrt(params.release_amt))
                  /\ run'.limiters.state[chan] = TriggerState(hold, release)
             ELSE EnvelopeParts(run'.limiters, chan) = EnvelopeParts(run.limiters, chan)
      ]_vars

\* the clamp has fired on a sample 6 dB over: the envelope is -6 dB, the
\* hold value half of it (hold amount 1/4)
C25_Witness ==
    /\ run.clamped[0] /\ ~run.retrig[0] /\ lookahead = 0
    /\ run.limiters.envelope[0] = Db(-6) /\ run.limiters.target[0] = Db(-6)
    /\ params.release_amt = One \div 4 /\ run.limiters.hold[0] = Db(-3)
    /\ run.limiters.state[0] = TriggerState(hold, release)

\* the normalized position of the entry of the given age in the window
WindowPosition(age, len) == Div((age + 1) * One, len + One)

\* the attack candidate of buffer entry e at normalized position t
CandidateAt(e, t) ==
    Mul(calc_atk_reduction(e.db, process(atk_env, t)), params.attack_amt)

\* C26 -- attack candidate position: at the attack step of a channel the
\* buffer holds the ages 0 (the sample just pushed) to lookahead_len (the
\* sample about to be popped) whenever it is rescanned, every normalized
\* position (age + 1) / (lookahead_len + 1) of the scan lies in (0, 1] and
\* that of the oldest entry is 1; a between-rescan read that yields a
\* candidate passes the position of the remembered peak's present age, in
\* (0, 1]; and a non-zero candidate is lerp(0, -level_db, curve(t)) *
\* attack_amount of the entry at the age the remembered peak then has.
C26_AttackPosition ==
    [][ pc = "attack" =>
          LET B   == run.limiters.buffers[chan]
              old == CurrentPeak(run.limiters, chan)
              cp  == CurrentPeak(run'.limiters, chan)
              age == cp.position \div One
          IN  /\ Rescanned =>
                    /\ Len(B) * One = lookahead_len + One
                    /\ \A i \in 0..(Len(B) - 1) :
                          /\ WindowPosition(i, lookahead_len) > 0
                          /\ WindowPosition(i, lookahead_len) <= One
                    /\ WindowPosition(Len(B) - 1, lookahead_len) = One
              /\ (~Rescanned /\ read(old, atk_env).some) =>
                    /\ cp.position = old.position + One
                    /\ cp.lerp_len = lookahead_len
                    /\ age < Len(B) /\ B[Len(B) - age].db = cp.db
                    /\ WindowPosition(age, lookahead_len) > 0
                    /\ WindowPosition(age, lookahead_len) <= One
                    /\ run'.atk_reduction =
                          CandidateAt(B[Len(B) - age],
                                      WindowPosition(age, lookahead_len))
              /\ run'.atk_reduction # 0 =>
                    /\ age < Len(B) /\ peak(B[Len(B) - age])
                    /\ run'.atk_reduction =
                          CandidateAt(B[Len(B) - age],
                                      WindowPosition(age, lookahead_len))
      ]_vars

\* between two rescans of a lookahead of 2 samples the remembered peak is
\* read at age 2, about to be popped: the candidate is its whole level
C26_Witness ==
    /\ pc = "pop" /\ ~Rescanned /\ lookahead_len = 2 * One
    /\ run.limiters.current_peaks.position[chan] = 2 * One
    /\ run.limiters.current_peaks.db[chan] = Db(6)
    /\ run.atk_reduction = Db(-6)

\* Off as the claim has it: a channel that is Off once its steps of a
\* sample are done has an envelope of 0
C27_AsClaimed ==
    pc = "link" =>
        \A c \in Channels :
            run.limiters.state[c] = Off => run.limiters.envelope[c] = 0

\* C27 -- Off means no active reduction once a tick has found the channel
\* Off: whenever a channel's state is Off after the steps of a processed
\* sample whose state tick found it Off and in which neither the attack
\* retrigger nor the safety clamp fired, its envelope is 0 for that sample
\* (target and hold value as well).
C27_OffEnvelope ==
    pc = "link" =>
        \A c \in Channels :
            (run.limiters.state[c] = Off /\ run.found[c] = "Off" /\ ~Fired(c)) =>
                /\ run.limiters.envelope[c] = 0
                /\ run.limiters.target[c] = 0
                /\ run.limiters.hold[c] = 0

\* hold and release are 0: the sample after a clamp of 6 dB, which left the
\* channel Off with the envelope at -6 dB, finds it Off and zeroes it
C27_Witness ==
    /\ pc = "link" /\ run.limiters.state[0] = Off /\ run.found[0] = "Off"
    /\ ~Fired(0) /\ run.since[0] = 1 /\ run.trig[0] = Db(-6)
    /\ hold = 0 /\ release = 0
    /\ run.limiters.envelope[0] = 0

\* C28 -- buffer length equals the lookahead length for every lifecycle:
\* whatever calls of initialize, reset and process came after the
\* construction, at the start of each per-sample iteration (before the first
\* channel pushes) every channel's buffer holds lookahead_len entries.
C28_BufferLength ==
    (pc = "push" /\ chan = 0) =>
        \A c \in Channels :
            Len(run.limiters.buffers[c]) * One = lookahead_len

\* an entry pushed by a numbered sample (the priming silence has number 0)
Numbered(e) == e.seq > 0

\* is e an entry of the buffer B
Holds(B, e) == \E j \in DOMAIN B : B[j] = e

\* in the step taken, every numbered entry of channel c's buffer either
\* stays in the buffer or is the front entry that the channel's pop hands
\* over as the delayed sample, and a pop removes what it hands over
Conserved(c) ==
    LET B  == run.limiters.buffers[c]
        B2 == run'.limiters.buffers[c]
    IN  /\ \A k \in DOMAIN B :
              Numbered(B[k]) =>
                 \/ Holds(B2, B[k])
                 \/ pc = "pop" /\ chan = c /\ k = 1 /\ run'.delay = B[1]
        /\ (pc = "pop" /\ chan = c /\ pc' = "clamp") =>
              /\ run'.delay = Head(B) /\ B2 = Tail(B)
              /\ Numbered(run'.delay) => ~Holds(B2, run'.delay)

\* the step taken builds the limiters anew: initialize, reset, or the start
\* of a process call that has seen another lookahead length
Rebuilt ==
    \/ pc \in {"new", "initialized"}
    \/ pc = "idle" /\ (pc' \in {"idle", "initialized"} \/ changed')

\* Consumption as the claim has it: whatever the step, a change of the
\* lookahead length included, no buffered sample leaves a buffer but by the
\* pop
C29_AsClaimed ==
    [][ \A c \in Channels : Conserved(c) ]_vars

\* C29 -- each sample is consumed at most once, and exactly once between
\* two rebuilds: in every step that does not build the limiters anew, no
\* sample is popped twice and no pushed sample leaves its buffer other than
\* through the per-sample pop; a step that builds the limiters anew (a
\* changed lookahead length at the start of a process call, or reset) leaves
\* only silence in the buffers, the samples buffered before it are dropped
\* unpopped.
C29_ConsumedOnce ==
    [][ \A c \in Channels :
          IF Rebuilt
          THEN \A k \in DOMAIN run'.limiters.buffers[c] :
                  run'.limiters.buffers[c][k] = Silence
          ELSE Conserved(c) ]_vars

\* after a rebuild in mid-stream the second sample pops the loud sample the
\* first one pushed
C29_Witness ==
    /\ pc = "clamp" /\ lookahead_len = One /\ base >= 2 /\ nsamp = base + 2
    /\ run.delay.seq = nsamp - 1 /\ run.delay.db > 0
    /\ ~Holds(run.limiters.buffers[chan], run.delay)

\* the step that follows each step of a channel within a sample
StepAfter ==
    [s \in {"push", "tick", "attack", "pop"} |->
        CASE s = "push"   -> "tick"
          [] s = "tick"   -> "attack"
          [] s = "attack" -> "pop"
          [] s = "pop"    -> "clamp"]

\* the least of 0 and the envelopes of all channels
LeastEnvelope(l) ==
    CHOOSE m \in {0} \cup {l.envelope[c] : c \in Channels} :
        \A c \in Channels : m <= l.envelope[c] /\ m <= 0

\* C30 -- per-sample step order: a channel's steps of a sample follow one
\* another as push, tick, attack, pop, clamp; the sample pushed for this
\* index is the youngest entry of the buffer while the tick and the attack
\* run and the buffer is back at lookahead_len entries after the pop; a
\* retrigger leaves the state as the trigger set it, not ticked; the linker
\* starts only when every channel has done its steps, from the envelopes
\* as they are then (most_reduction their least, each channel's reduction
\* its own envelope); and no output of this index is written while any
\* channel has an input to read or a step to do.
C30_StepOrder ==
    [][ /\ pc \in DOMAIN StepAfter => (pc' \in {StepAfter[pc], "panic"} /\ chan' = chan)
        /\ pc = "clamp" =>
              IF chan + 1 < NumChannels
              THEN pc' = "push" /\ chan' = chan + 1
              ELSE pc' = "link" /\ chan' = chan
        /\ pc \in {"tick", "attack", "pop"} =>
              LET B == run.limiters.buffers[chan]
              IN  /\ Len(B) * One = lookahead_len + One
                  /\ B[Len(B)].seq = nsamp
        /\ pc = "clamp" =>
              Len(run.limiters.buffers[chan]) * One = lookahead_len
        /\ (pc = "attack" /\ run'.retrig[chan]) =>
              run'.limiters.state[chan] = TriggerState(hold, release)
        /\ pc \in {"push", "tick", "attack", "pop", "clamp", "link"} =>
              \A c \in Channels : ~run.out[c].written
        /\ pc = "link" =>
              /\ Len(run.rv_samples) = NumChannels
              /\ run.most_reduction = LeastEnvelope(run.limiters)
              /\ \A c \in Channels :
                    /\ run.rv_samples[c + 1].reduction = run.limiters.envelope[c]
                    /\ Len(run.limiters.buffers[c]) * One = lookahead_len
                    /\ run'.out[c].written
                    /\ run'.out[c].envelope = run.limiters.envelope[c]
                    /\ run'.out[c].seq = run.rv_samples[c + 1].seq
      ]_vars

\* the clamp has fired on the first channel with no lookahead: the linker
\* is about to start from its envelope of -6 dB, nothing written yet
C30_Witness ==
    /\ pc = "link" /\ run.clamped[0] /\ lookahead_len = 0
    /\ Len(run.rv_samples) = NumChannels
    /\ run.rv_samples[1].reduction = Db(-6) /\ run.rv_samples[1].seq = nsamp
    /\ run.most_reduction = Db(-6)
    /\ \A c \in Channels : ~run.out[c].written

\* the entry of the buffer B with the number n, if it holds one
Entry(B, n) == CHOOSE e \in {B[j] : j \in DOMAIN B} : e.seq = n

\* is the sample the last successful rescan remembered still in the buffer
\* of channel c
KeptBuffered(c) ==
    /\ run.kept[c] > 0
    /\ \E j \in DOMAIN run.limiters.buffers[c] :
          run.limiters.buffers[c][j].seq = run.kept[c]

EffectiveSmoothing(env) == env.curve.smoothing
NestedSmoothing(env) == env.curve.sm_ease.smoothing

\* C32 -- smoothing coupling in build_envelope: for a fixed smoothing amount
\* of [0, 1] the effective smoothing of the outer SCurve and the derived
\* smoothing of the nested one are non-increasing in linearity over [0, 1],
\* and the effective smoothing is within [0, 1].
C32_SmoothingCoupling ==
    probe.op = "build_envelope" =>
        /\ EffectiveSmoothing(probe.at_hi) <= EffectiveSmoothing(probe.at_lo)
        /\ NestedSmoothing(probe.at_hi) <= NestedSmoothing(probe.at_lo)
        /\ EffectiveSmoothing(probe.at_lo) \in 0..One
        /\ EffectiveSmoothing(probe.at_hi) \in 0..One

\* what the code computes: both smoothings are non-decreasing in linearity,
\* and the effective one is within [smoothing amount, 1]
C32_NonDecreasing ==
    probe.op = "build_envelope" =>
        /\ EffectiveSmoothing(probe.at_hi) >= EffectiveSmoothing(probe.at_lo)
        /\ NestedSmoothing(probe.at_hi) >= NestedSmoothing(probe.at_lo)
        /\ EffectiveSmoothing(probe.at_lo) \in probe.lo.smooth_amount..One
        /\ EffectiveSmoothing(probe.at_hi) \in probe.hi.smooth_amount..One

\* the lookahead is at least one sample, every sample rescans, the attack
\* amount is at least 1 and the attack curve maps 1 to 1
FullAttack ==
    /\ lookahead_len >= One
    /\ params.lookahead_accuracy = 1
    /\ params.attack_amt >= One
    /\ process(atk_env, One) = One

\* C33 -- lookahead makes the clamp unnecessary: with lookahead_len >= 1, a
\* rescan at every sample, an attack amount >= 1 and an attack curve that
\* maps 1 to 1, the envelope after the attack step is at most -level_db of
\* the sample about to be popped, so the sample popped is at or below the
\* ceiling with the envelope applied and the safety clamp does not fire.
C33_ClampUnnecessary ==
    (FullAttack /\ InLoop) =>
        /\ pc = "pop" =>
              Head(run.limiters.buffers[chan]).db + run.limiters.envelope[chan] <= 0
        /\ pc = "clamp" =>
              run.delay.db + run.limiters.envelope[chan] <= 0
        /\ \A c \in Channels : ~run.clamped[c]

\* a sample 6 dB over is about to be popped from a lookahead of 2 samples
\* and the attack step has brought the envelope to -6 dB
C33_Witness ==
    /\ FullAttack /\ pc = "clamp" /\ lookahead_len = 2 * One
    /\ run.delay.db = Db(6) /\ run.delay.seq = nsamp - 2
    /\ run.retrig[chan] /\ ~run.clamped[chan]
    /\ run.limiters.envelope[chan] = Db(-6)

\* the number of samples after which a channel is to have recovered:
\* lookahead_len + hold_len + release_len, each a whole number of samples,
\* and a constant of 4
RecoveryBound ==
    AsUsize(lookahead_len) + AsUsize(Ceil(hold)) + AsUsize(Ceil(release)) + 4

\* the last k samples channel c has pushed (all of them, if fewer have been
\* pushed since the limiters were built) are at or below the ceiling
Quiet(c, k) ==
    \A j \in DOMAIN run.pushed[c] :
        j > Len(run.pushed[c]) - k => run.pushed[c][j].db <= 0

\* channel c is idle: Off, with envelope, target and hold value 0
Idle(c) ==
    /\ run.limiters.state[c] = Off
    /\ run.limiters.envelope[c] = 0
    /\ run.limiters.target[c] = 0
    /\ run.limiters.hold[c] = 0

\* C34 -- recovery to idle: once the last lookahead_len + hold_len +
\* release_len + 4 samples a channel has been fed are all at or below
\* the ceiling, the channel is Off with envelope = target = hold value = 0
\* after the sample's steps, and stays so while the input stays there.
C34_Recovery ==
    pc = "link" =>
        \A c \in Channels : Quiet(c, RecoveryBound) => Idle(c)

\* no channel has pushed a sample over the ceiling since the limiters were
\* built
NoPeakSince ==
    \A c \in Channels : \A j \in DOMAIN run.pushed[c] : run.pushed[c][j].db <= 0

\* C35 -- transparency below the ceiling: as long as no driven input sample
\* of any channel has been over 0 dB since the last rebuild, every channel
\* is Off with envelope, target and hold value 0, and every output written
\* has a reduction of 0: it is the delayed driven sample times the gain of
\* trim + compensation.
C35_Transparency ==
    NoPeakSince =>
        \A c \in Channels :
            /\ Idle(c)
            /\ run.most_reduction = 0
            /\ Written(run, c) =>
                  /\ run.out[c].envelope = 0 /\ run.out[c].reduce = 0
                  /\ run.out[c].value =
                        Mul(run.out[c].sample,
                            db_to_gain_fast(params.trim +
                                (IF params.compensate
                                 THEN Div(gain_to_db_fast(params.drive), -2 * One)
                                 ELSE 0)))

\* a sample exactly at the ceiling (half of full scale, driven by 2) has
\* been written out, through a lookahead of one sample, with trim and
\* compensation alone
C35_Witness ==
    /\ NoPeakSince /\ pc \in {"sample", "idle"} /\ lookahead_len = One
    /\ params.drive = 2 * One /\ params.trim = -Half /\ params.compensate
    /\ Written(run, 0) /\ run.out[0].sample = One /\ run.out[0].db = 0
    /\ run.out[0].seq = nsamp - 1
    /\ run.out[0].value # 0 /\ run.out[0].value # run.out[0].sample
    /\ Idle(0) /\ Idle(1)

\* the least of 0 and the envelopes the channels were written out with
LeastWritten(r) ==
    CHOOSE m \in {0} \cup {r.out[c].envelope : c \in Channels} :
        m <= 0 /\ \A c \in Channels : m <= r.out[c].envelope

\* C36 -- stereo link: with stereo_link in [0, 1], the reduction applied
\* to every channel written out lies between most_reduction and the
\* channel's own envelope (most_reduction <= applied <= own envelope), and
\* most_reduction is the least of 0 and the envelopes of all channels.
C36_StereoLink ==
    (\A c \in Channels : Written(run, c)) =>
        /\ 0 <= params.stereo_link /\ params.stereo_link <= One
        /\ run.most_reduction = LeastWritten(run)
        /\ \A c \in Channels :
              /\ run.most_reduction <= run.out[c].reduce
              /\ run.out[c].reduce <= run.out[c].envelope

\* half linked, the first channel reduced and the second not: the second
\* is written out with a reduction strictly between the two
C36_Witness ==
    /\ \A c \in Channels : Written(run, c)
    /\ params.stereo_link = Half
    /\ run.out[0].envelope < 0 /\ run.out[1].envelope = 0
    /\ run.most_reduction = run.out[0].envelope
    /\ run.out[0].reduce = run.out[0].envelope
    /\ run.most_reduction < run.out[1].reduce /\ run.out[1].reduce < 0

\* the scalars of channel c in order: target <= hold <= 0 and
\* target <= envelope <= 0
Ordered(l, c) ==
    /\ l.target[c] <= l.hold[c] /\ l.hold[c] <= 0
    /\ l.target[c] <= l.envelope[c] /\ l.envelope[c] <= 0

\* C37 -- ordering of the envelope scalars: with the hold amount in [0, 1],
\* once every channel has done its steps of a sample, and between samples,
\* each channel has target <= hold value <= 0 and target <= envelope <= 0.
C37_ScalarOrder ==
    (pc \in {"link", "sample", "idle"}
        /\ 0 <= params.release_amt /\ params.release_amt <= One) =>
            \A c \in Channels : Ordered(run.limiters, c)

\* a hold amount of 25 %: the first channel has retriggered on this sample,
\* its hold value half of its target, the envelope at the target
C37_Witness ==
    /\ pc \in {"sample", "idle"} /\ params.release_amt = One \div 4
    /\ run.limiters.target[0] < run.limiters.hold[0]
    /\ run.limiters.hold[0] < 0
    /\ run.limiters.envelope[0] = run.limiters.target[0]
    /\ Written(run, 0) /\ run.out[0].envelope = run.limiters.envelope[0]

\* has a graph been generated
Graphed == probe.op \in {"generate_attack_graph", "generate_release_graph"}

\* the points are resolution + 1 in number, their x values i / resolution
\* for i = 0..resolution, from 0 to 1
GraphGrid ==
    /\ Len(probe.points) = probe.resolution + 1
    /\ \A k \in 1..(probe.resolution + 1) :
          /\ ~probe.points[k].nan
          /\ probe.points[k].x * probe.resolution = (k - 1) * One
    /\ probe.points[1].x = 0
    /\ probe.points[probe.resolution + 1].x = One

\* the composed curve of a graph: the attack or the release envelope of
\* the parameters
GraphCurve ==
    IF probe.op = "generate_attack_graph"
    THEN build_envelope(params.atk_env) ELSE build_envelope(params.rel_env)

\* every y is the value of the composed curve at its x
AsCurve ==
    \A k \in DOMAIN probe.points :
        probe.points[k].y = process(GraphCurve, probe.points[k].x)

\* every y of the attack graph is 1 less the value of the composed curve
AsInverse ==
    \A k \in DOMAIN probe.points :
        probe.points[k].y = One - process(GraphCurve, probe.points[k].x)

\* C38 as stated -- both graphs, at any resolution r, have r + 1 points with
\* x = i / r from 0 to 1 and y the composed curve's value at x.
C38_AsClaimed ==
    Graphed => (GraphGrid /\ AsCurve)

\* C38 -- editor curve feed: generate_attack_graph and
\* generate_release_graph with a resolution r >= 1 return exactly r + 1
\* points whose x values are i / r for i = 0..r, from 0 to 1; each y of the
\* release graph is the composed release curve's value at x, each y of the
\* attack graph 1 less the composed attack curve's value at x; nothing but
\* the parameters is read and nothing of the plugin changes.
C38_GraphPoints ==
    /\ []((Graphed /\ probe.resolution >= 1) =>
            /\ GraphGrid
            /\ IF probe.op = "generate_attack_graph" THEN AsInverse ELSE AsCurve)
    /\ [][UNCHANGED plugin]_vars

\* the attack graph of an S-curve at resolution 4: five points from (0, 1)
\* to (1, 0), the middle one off the diagonal
C38_Witness ==
    /\ probe.op = "generate_attack_graph" /\ probe.resolution = 4
    /\ params.atk_env = CurvedShape
    /\ Len(probe.points) = 5
    /\ probe.points[1].x = 0 /\ probe.points[1].y = One
    /\ probe.points[5].x = One /\ probe.points[5].y = 0
    /\ probe.points[2].x = One \div 4
    /\ probe.points[2].y # One - probe.points[2].x

\* the GUIData has been built
Created == probe.op \in {"create", "store", "update_buffers"}

\* C39 -- gain-reduction history: after any number of update_buffers calls
\* the pre, post and env queues hold exactly 300 entries each, so
\* GRBuffer::same never indexes past the end of one; each call drops the
\* oldest entry of each queue and appends the values swapped out of the
\* atomics, which are left at 0.
C39_History ==
    /\ [](Created =>
            /\ Len(probe.gr_buffer.pre) = 300
            /\ Len(probe.gr_buffer.post) = 300
            /\ Len(probe.gr_buffer.env) = 300
            /\ probe.same # "panic")
    /\ [][(probe.op # "none" /\ probe'.updates = probe.updates + 1) =>
            /\ \A a \in {"pre", "post", "env"} :
                  /\ probe'.gr_buffer[a] =
                        Append(Tail(probe.gr_buffer[a]), probe.gr_atomics[a])
                  /\ probe'.gr_atomics[a] = << 0, 0 >>
         ]_vars

\* two updates, a level stored to the first pre atomic before the first:
\* the history has moved up by two, the stored level last but one, and
\* differs from the one before
C39_Witness ==
    /\ probe.op = "update_buffers" /\ probe.updates = 2
    /\ probe.gr_buffer.pre[300] = << 0, 0 >>
    /\ probe.gr_buffer.pre[299] = << Db(-6), 0 >>
    /\ probe.gr_buffer.pre[298] = << MinusInfDb, MinusInfDb >>
    /\ probe.gr_buffer.env[298] = << 0, 0 >>
    /\ probe.gr_atomics.pre = << 0, 0 >>
    /\ probe.same = "false"

====
